---- MODULE Spec2Model ----
(***************************************************************************)
(* Model of wolfcore and of the backend's ProcessingService.               *)
(*                                                                         *)
(* A text is a sequence of characters.  The Python string built-ins the    *)
(* code calls (strip, split, join, find, slicing, re.split, re.sub) are    *)
(* operators that compute what the built-ins compute.  The module holds    *)
(* five specifications over the same variables, each leaving the other     *)
(* components idle:                                                        *)
(*   Spec           TextChunker.chunk_text (src/wolfcore/chunker.py):      *)
(*                  ChunkText is the guard and the dispatch on             *)
(*                  config.method, CombineStep / CombineFinish are one     *)
(*                  iteration and the final flush of _combine_into_chunks, *)
(*                  TokenAwareStep / TokenAwareFinish those of             *)
(*                  _chunk_token_aware;                                    *)
(*   SpecCleaner    the three cleaners of src/wolfcore/cleaner.py, each    *)
(*                  called on a text and then on its own output;           *)
(*   SpecProcessor  the stages of Wolfstitch.process_file_async            *)
(*                  (src/wolfcore/processor.py);                           *)
(*   SpecFunctions  detect_content_type, split_text and the two token      *)
(*                  estimators, each called on its own;                    *)
(*   SpecService    ProcessingService: the calls that write self.jobs,     *)
(*                  create_job_status, update_job_status, cancel_job and   *)
(*                  the background tasks cut at their suspension points    *)
(*                  (src/backend/services/processing_service.py).          *)
(***************************************************************************)
EXTENDS Integers, Sequences, FiniteSets

VARIABLES
    text,             \* chunk_text's argument
    config,           \* self.config: method, max_tokens, overlap_tokens, custom_delimiter
    tokenizer,        \* which tokenizer_func was passed in
    pc,               \* position in chunk_text: "start", "combine", "token_aware", "done"
    outcome,          \* "pending", "returned" or "raised"
    parts,            \* the list the loop walks: parts (combiner) or words (token_aware)
    separator,        \* the separator argument of _combine_into_chunks
    pos,              \* number of elements of parts the for loop has consumed
    current_parts,    \* current_parts (combiner) / current_chunk_words (token_aware)
    current_tokens,   \* current_tokens
    chunk_index,      \* chunk_index
    text_position,    \* text_position
    chunks,           \* chunks: the list returned
    cleaner,          \* the function of cleaner.py under call, or "none"
    raw_text,         \* the text handed to the cleaner
    cleaned,          \* what the cleaner returned for raw_text
    recleaned,        \* what the cleaner returned for cleaned
    passes,           \* number of calls of the cleaner made so far
    flags,            \* remove_headers, normalize_whitespace, strip_bullets
    self_config,      \* Wolfstitch.config: the processor's ProcessingConfig
    call,             \* process_file_async's arguments, the file and the stage that fails
    stage,            \* position in process_file_async
    frame,            \* its locals: config, parsed_file, cleaned_text, chunks
    processing_result,  \* the ProcessingResult returned: {} until then
    error,            \* the exception raised, outermost first: its chain of causes
    fn,               \* the module-level function or estimator under call
    args,             \* its arguments
    ret,              \* what it returned: {} until then
    exc,              \* the exception it raised: "" when none
    jobs,             \* ProcessingService.jobs: job_id -> {} or {the job's record}
    results,          \* the keys of ProcessingService.results
    task,             \* the calls of process_file_background(job_id) in flight
    cancel_call,      \* the call of cancel_job made by the last step, if any: {} or {it}
    acknowledged      \* the jobs for which cancel_job has returned True

chunkerVars == <<text, config, tokenizer, pc, outcome, parts, separator, pos,
                 current_parts, current_tokens, chunk_index, text_position, chunks>>

cleanerVars == <<cleaner, raw_text, cleaned, recleaned, passes, flags>>

processorVars == <<self_config, call, stage, frame, processing_result, error>>

functionVars == <<fn, args, ret, exc>>

serviceVars == <<jobs, results, task, cancel_call, acknowledged>>

vars == <<chunkerVars, cleanerVars, processorVars, functionVars, serviceVars>>

-----------------------------------------------------------------------------
(* Bounds of the model *)

MaxTextLen == 5
MaxTokens == 2
MaxOverlap == 2

-----------------------------------------------------------------------------
(* Characters and the Python string built-ins *)

Alphabet == {"a", ".", " ", "\n"}

\* str.isspace for the characters of the alphabet
Whitespace == {" ", "\n"}

\* the character class [.!?] of the sentence regex, within the alphabet
SentenceEnd == {"."}

Max2(a, b) == IF a >= b THEN a ELSE b

Min2(a, b) == IF a <= b THEN a ELSE b

SetMin(S) == CHOOSE x \in S : \A y \in S : x <= y

RECURSIVE LStrip(_)
LStrip(s) ==
    IF s # <<>> /\ Head(s) \in Whitespace THEN LStrip(Tail(s)) ELSE s

RECURSIVE RStrip(_)
RStrip(s) ==
    IF s # <<>> /\ s[Len(s)] \in Whitespace
    THEN RStrip(SubSeq(s, 1, Len(s) - 1))
    ELSE s

\* str.strip()
Strip(s) == RStrip(LStrip(s))

\* s[a:b] for 0 <= a
Slice(s, a, b) == SubSeq(s, a + 1, Min2(b, Len(s)))

RECURSIVE SplitWsAcc(_, _, _)
SplitWsAcc(s, cur, acc) ==
    IF s = <<>>
    THEN (IF cur = <<>> THEN acc ELSE Append(acc, cur))
    ELSE IF Head(s) \in Whitespace
         THEN SplitWsAcc(Tail(s), <<>>, IF cur = <<>> THEN acc ELSE Append(acc, cur))
         ELSE SplitWsAcc(Tail(s), Append(cur, Head(s)), acc)

\* str.split(): the maximal runs of non-whitespace characters
SplitWs(s) == SplitWsAcc(s, <<>>, <<>>)

StartsWith(s, d) == Len(s) >= Len(d) /\ SubSeq(s, 1, Len(d)) = d

RECURSIVE SplitOnAcc(_, _, _, _)
SplitOnAcc(s, d, cur, acc) ==
    IF s = <<>>
    THEN Append(acc, cur)
    ELSE IF StartsWith(s, d)
         THEN SplitOnAcc(SubSeq(s, Len(d) + 1, Len(s)), d, <<>>, Append(acc, cur))
         ELSE SplitOnAcc(Tail(s), d, Append(cur, Head(s)), acc)

\* str.split(d) for a non-empty delimiter d: empty pieces are kept
SplitOn(s, d) == SplitOnAcc(s, d, <<>>, <<>>)

RECURSIVE SplitSentencesAcc(_, _, _)
SplitSentencesAcc(s, cur, acc) ==
    IF s = <<>>
    THEN Append(acc, cur)
    ELSE IF Head(s) \in Whitespace /\ cur # <<>> /\ cur[Len(cur)] \in SentenceEnd
         THEN SplitSentencesAcc(LStrip(s), <<>>, Append(acc, cur))
         ELSE SplitSentencesAcc(Tail(s), Append(cur, Head(s)), acc)

\* re.split(r'(?<=[.!?])\s+', s): cut at every whitespace run that follows [.!?]
SplitSentences(s) == SplitSentencesAcc(s, <<>>, <<>>)

RECURSIVE Join(_, _)
\* sep.join(ps)
Join(sep, ps) ==
    IF ps = <<>> THEN <<>>
    ELSE IF Len(ps) = 1 THEN ps[1]
    ELSE ps[1] \o sep \o Join(sep, Tail(ps))

\* s.find(sub): the lowest 0-based index of sub in s, or -1
Find(s, sub) ==
    LET hits == {i \in 0..(Len(s) - Len(sub)) : SubSeq(s, i + 1, i + Len(sub)) = sub}
    IN  IF hits = {} THEN -1 ELSE SetMin(hits)

RECURSIVE StripNonEmpty(_)
\* [p.strip() for p in ps if p.strip()]
StripNonEmpty(ps) ==
    IF ps = <<>> THEN <<>>
    ELSE (IF Strip(Head(ps)) = <<>> THEN <<>> ELSE <<Strip(Head(ps))>>)
         \o StripNonEmpty(Tail(ps))

-----------------------------------------------------------------------------
(* Token estimators *)

\* a variant of EstimateTokens rounding to the nearest integer instead of truncating
EstimateTokensRounded(s) == (Len(SplitWs(s)) * 13 + 5) \div 10

\* TextChunker._estimate_tokens: int(word_count * 1.3)
EstimateTokens(s) == (Len(SplitWs(s)) * 13) \div 10

\* an injected tokenizer_func counting characters (the tests' custom_tokenizer)
CharCountTokens(s) == Len(s)

Tokenizers == {"default", "char_count"}

\* a variant of EstimateTokensWordBased rounding to the nearest integer
EstimateTokensWordBasedRounded(s) == (Len(SplitWs(s)) * 13 + 5) \div 10

\* Wolfstitch._estimate_tokens_word_based: int(word_count * 1.3)
EstimateTokensWordBased(s) == (Len(SplitWs(s)) * 13) \div 10

\* Wolfstitch._estimate_tokens_char_based: len(text) // 4
EstimateTokensCharBased(s) == Len(s) \div 4

\* Wolfstitch._get_tokenizer_function: an unknown name gets the word estimate
GetTokenizerFunction(name, s) ==
    IF name = "word-estimate" THEN EstimateTokensWordBased(s)
    ELSE IF name = "char-estimate" THEN EstimateTokensCharBased(s)
    ELSE EstimateTokensWordBased(s)

\* tokenizer_func(s): the chunker's default, the tests' character count, or
\* the function the processor picked by name
TokenizerFunc(name, s) ==
    IF name = "default" THEN EstimateTokens(s)
    ELSE IF name = "char_count" THEN CharCountTokens(s)
    ELSE GetTokenizerFunction(name, s)

RECURSIVE SumTokens(_, _)
\* sum(tokenizer_func(w) for w in ws)
SumTokens(name, ws) ==
    IF ws = <<>> THEN 0
    ELSE TokenizerFunc(name, Head(ws)) + SumTokens(name, Tail(ws))

-----------------------------------------------------------------------------
(* Configuration and inputs *)

KnownMethods == {"paragraph", "sentence", "custom", "token_aware"}

\* Optional[str] is a set with at most one element: {} is None
NoneValue == {}

Delimiters == {NoneValue, {<<>>}, {<<".">>}}

Texts == UNION {[1..n -> Alphabet] : n \in 0..MaxTextLen}

\* ChunkingConfig; overlap_tokens is read by token_aware only and
\* custom_delimiter by custom only, so they vary only there
Configs ==
    {[method |-> m, max_tokens |-> mt, overlap_tokens |-> 0, custom_delimiter |-> NoneValue] :
        m \in {"paragraph", "sentence", "bogus"}, mt \in 1..MaxTokens}
    \cup
    {[method |-> "custom", max_tokens |-> mt, overlap_tokens |-> 0, custom_delimiter |-> d] :
        mt \in 1..MaxTokens, d \in Delimiters}
    \cup
    {[method |-> "token_aware", max_tokens |-> mt, overlap_tokens |-> ov,
      custom_delimiter |-> NoneValue] :
        mt \in 1..MaxTokens, ov \in 0..MaxOverlap}

\* The paragraph scenarios: three two-word paragraphs separated by blank lines,
\* chunked by paragraph with the default estimator and max_tokens 5 or 100
ScenarioWords == {<<"a">>, <<".">>}

TwoWordParagraphs == {w1 \o <<" ">> \o w2 : w1 \in ScenarioWords, w2 \in ScenarioWords}

ScenarioTexts ==
    {p1 \o <<"\n", "\n">> \o p2 \o <<"\n", "\n">> \o p3 :
        p1 \in TwoWordParagraphs, p2 \in TwoWordParagraphs, p3 \in TwoWordParagraphs}

ScenarioConfigs ==
    {[method |-> "paragraph", max_tokens |-> mt, overlap_tokens |-> 0,
      custom_delimiter |-> NoneValue] : mt \in {5, 100}}

-----------------------------------------------------------------------------
(* chunk_text: guard and dispatch *)

\* not self.config.custom_delimiter
NoDelimiter(cfg) == cfg.custom_delimiter = NoneValue \/ cfg.custom_delimiter = {<<>>}

TheDelimiter(cfg) == CHOOSE d \in cfg.custom_delimiter : TRUE

\* the parts of _chunk_by_paragraphs
ParagraphParts(t) == StripNonEmpty(SplitOn(t, <<"\n", "\n">>))

\* the parts of _chunk_by_sentences
SentenceParts(t) == StripNonEmpty(SplitSentences(t))

\* the parts of _chunk_by_custom_delimiter
CustomParts(t, d) == StripNonEmpty(SplitOn(t, d))

ToCombiner(ps, sep) ==
    [pc |-> "combine", outcome |-> "pending", parts |-> ps, separator |-> sep]

\* _chunk_by_custom_delimiter up to its call of the combiner
ChunkByCustomDelimiter(t, cfg) ==
    IF NoDelimiter(cfg)
    THEN ToCombiner(ParagraphParts(t), <<"\n", "\n">>)
    ELSE ToCombiner(CustomParts(t, TheDelimiter(cfg)), TheDelimiter(cfg))

\* the routing of chunk_text on config.method
DispatchMethod(t, cfg) ==
    IF cfg.method = "paragraph" THEN ToCombiner(ParagraphParts(t), <<"\n", "\n">>)
    ELSE IF cfg.method = "sentence" THEN ToCombiner(SentenceParts(t), <<" ">>)
    ELSE IF cfg.method = "custom" THEN ChunkByCustomDelimiter(t, cfg)
    ELSE IF cfg.method = "token_aware"
         THEN [pc |-> "token_aware", outcome |-> "pending", parts |-> SplitWs(t),
               separator |-> <<" ">>]
    ELSE ToCombiner(ParagraphParts(t), <<"\n", "\n">>)

\* a variant of Dispatch validating the method before looking at the text
DispatchValidatingFirst(t, cfg) ==
    IF cfg.method \notin KnownMethods
    THEN [pc |-> "done", outcome |-> "raised", parts |-> <<>>, separator |-> <<>>]
    ELSE IF Strip(t) = <<>>
    THEN [pc |-> "done", outcome |-> "returned", parts |-> <<>>, separator |-> <<>>]
    ELSE DispatchMethod(t, cfg)

\* chunk_text up to the call of the method: blank text returns [] at once
Dispatch(t, cfg) ==
    IF Strip(t) = <<>>
    THEN [pc |-> "done", outcome |-> "returned", parts |-> <<>>, separator |-> <<>>]
    ELSE DispatchMethod(t, cfg)

-----------------------------------------------------------------------------
(* The pieces of the two accumulation loops *)

\* a variant of ShouldFlush that leaves the incoming part out of the test
ShouldFlushIgnoringPart(cur_tokens, part_tokens, buffer, max_tokens) ==
    cur_tokens > max_tokens /\ buffer # <<>>

\* a variant of ShouldFlush that closes the chunk as soon as the budget is reached
ShouldFlushAtLimit(cur_tokens, part_tokens, buffer, max_tokens) ==
    cur_tokens + part_tokens >= max_tokens /\ buffer # <<>>

\* current_tokens + part_tokens > max_tokens and current_parts
ShouldFlush(cur_tokens, part_tokens, buffer, max_tokens) ==
    cur_tokens + part_tokens > max_tokens /\ buffer # <<>>

\* a variant of NextParts that loses the part that closed the chunk
NextPartsDroppingPart(flush, buffer, part) ==
    IF flush THEN <<>> ELSE Append(buffer, part)

\* a variant of NextParts that keeps the buffer when a chunk is closed
NextPartsKeepingBuffer(flush, buffer, part) == Append(buffer, part)

\* current_parts after one iteration of the combiner
NextParts(flush, buffer, part) ==
    IF flush THEN <<part>> ELSE Append(buffer, part)

\* a variant of NextTokens that does not reset the count when a chunk is closed
NextTokensNoReset(flush, cur_tokens, part_tokens) == cur_tokens + part_tokens

\* current_tokens after one iteration of the combiner
NextTokens(flush, cur_tokens, part_tokens) ==
    (IF flush THEN 0 ELSE cur_tokens) + part_tokens

\* a variant of NextChunkIndex that never advances
NextChunkIndexStuck(flush, idx) == idx

\* chunk_index after one iteration
NextChunkIndex(flush, idx) == IF flush THEN idx + 1 ELSE idx

SearchWindow == 100

\* _find_text_position
FindTextPosition(t, chunk_text, hint_position) ==
    LET search_start == Max2(0, hint_position - SearchWindow)
        search_end == Min2(Len(t), hint_position + Len(chunk_text) + SearchWindow)
        search_area == Slice(t, search_start, search_end)
        position == Find(search_area, chunk_text)
    IN  IF position # -1
        THEN search_start + position
        ELSE Max2(0, Find(t, chunk_text))

\* the Chunk built by _combine_into_chunks from the buffered parts
CombinedChunk(buffer, tokens, original_text, sep, idx, hint, method) ==
    LET chunk_text == Join(sep, buffer)
        chunk_start == FindTextPosition(original_text, chunk_text, hint)
    IN  [text |-> chunk_text,
         token_count |-> tokens,
         start_position |-> chunk_start,
         end_position |-> chunk_start + Len(chunk_text),
         chunk_index |-> idx,
         metadata |-> [method |-> method, part_count |-> Len(buffer), separator |-> sep]]

\* the Chunk built by _chunk_token_aware from the buffered words
WordChunk(words, tokens, position, idx) ==
    LET chunk_text == Join(<<" ">>, words)
        chunk_start == position - Len(chunk_text)
    IN  [text |-> chunk_text,
         token_count |-> tokens,
         start_position |-> Max2(0, chunk_start),
         end_position |-> position,
         chunk_index |-> idx,
         metadata |-> [method |-> "token_aware", word_count |-> Len(words)]]

RECURSIVE OverlapWalk(_, _, _, _, _)
\* the loop of _get_overlap_words over reversed(words)
OverlapWalk(words, name, limit, overlap_words, overlap_tokens) ==
    IF words = <<>> THEN overlap_words
    ELSE LET word == words[Len(words)]
             word_tokens == TokenizerFunc(name, word)
         IN  IF overlap_tokens + word_tokens <= limit
             THEN OverlapWalk(SubSeq(words, 1, Len(words) - 1), name, limit,
                              <<word>> \o overlap_words, overlap_tokens + word_tokens)
             ELSE overlap_words

RECURSIVE OverlapWalkStrict(_, _, _, _, _)
OverlapWalkStrict(words, name, limit, overlap_words, overlap_tokens) ==
    IF words = <<>> THEN overlap_words
    ELSE LET word == words[Len(words)]
             word_tokens == TokenizerFunc(name, word)
         IN  IF overlap_tokens + word_tokens < limit
             THEN OverlapWalkStrict(SubSeq(words, 1, Len(words) - 1), name, limit,
                                    <<word>> \o overlap_words, overlap_tokens + word_tokens)
             ELSE overlap_words

\* a variant of GetOverlapWords comparing with < instead of <=
GetOverlapWordsStrict(words, name, limit) == OverlapWalkStrict(words, name, limit, <<>>, 0)

\* _get_overlap_words
GetOverlapWords(words, name, limit) == OverlapWalk(words, name, limit, <<>>, 0)

\* the words the next chunk starts from when a chunk is closed
SeedWords(words, name, overlap_tokens) ==
    IF overlap_tokens > 0 THEN GetOverlapWords(words, name, overlap_tokens) ELSE <<>>

\* the locals of _combine_into_chunks before its loop
CombineStart ==
    [chunks |-> <<>>, current_parts |-> <<>>, current_tokens |-> 0, chunk_index |-> 0,
     text_position |-> 0]

\* the body of the for loop of _combine_into_chunks, on its locals st
CombineBody(st, part, original_text, name, sep, cfg) ==
    LET part_tokens == TokenizerFunc(name, part)
        flush == ShouldFlush(st.current_tokens, part_tokens, st.current_parts, cfg.max_tokens)
    IN  [chunks |-> IF flush
                    THEN Append(st.chunks,
                             CombinedChunk(st.current_parts, st.current_tokens, original_text,
                                           sep, st.chunk_index, st.text_position, cfg.method))
                    ELSE st.chunks,
         current_parts |-> NextParts(flush, st.current_parts, part),
         current_tokens |-> NextTokens(flush, st.current_tokens, part_tokens),
         chunk_index |-> NextChunkIndex(flush, st.chunk_index),
         text_position |-> st.text_position]

\* the final flush of _combine_into_chunks: the list it returns
CombineFlush(st, original_text, sep, cfg) ==
    IF st.current_parts # <<>>
    THEN Append(st.chunks,
             CombinedChunk(st.current_parts, st.current_tokens, original_text, sep,
                           st.chunk_index, st.text_position, cfg.method))
    ELSE st.chunks

RECURSIVE CombineLoop(_, _, _, _, _, _)
CombineLoop(ps, st, original_text, name, sep, cfg) ==
    IF ps = <<>>
    THEN CombineFlush(st, original_text, sep, cfg)
    ELSE CombineLoop(Tail(ps), CombineBody(st, Head(ps), original_text, name, sep, cfg),
                     original_text, name, sep, cfg)

\* _combine_into_chunks as a function of its arguments
CombineIntoChunks(ps, original_text, name, sep, cfg) ==
    CombineLoop(ps, CombineStart, original_text, name, sep, cfg)

\* a variant of TokenAwareBody that loses the word that closed a chunk
TokenAwareBodyDroppingWord(st, word, name, cfg) ==
    LET word_tokens == TokenizerFunc(name, word)
        flush == ShouldFlush(st.current_tokens, word_tokens, st.current_parts, cfg.max_tokens)
        seed == SeedWords(st.current_parts, name, cfg.overlap_tokens)
    IN  [chunks |-> IF flush
                    THEN Append(st.chunks,
                             WordChunk(st.current_parts, st.current_tokens, st.text_position,
                                       st.chunk_index))
                    ELSE st.chunks,
         current_parts |-> IF flush THEN seed ELSE Append(st.current_parts, word),
         current_tokens |->
             IF flush THEN SumTokens(name, seed) ELSE st.current_tokens + word_tokens,
         chunk_index |-> NextChunkIndex(flush, st.chunk_index),
         text_position |-> st.text_position + Len(word) + 1]

\* the body of the for loop of _chunk_token_aware, on its locals st
TokenAwareBody(st, word, name, cfg) ==
    LET word_tokens == TokenizerFunc(name, word)
        flush == ShouldFlush(st.current_tokens, word_tokens, st.current_parts, cfg.max_tokens)
        seed == SeedWords(st.current_parts, name, cfg.overlap_tokens)
    IN  [chunks |-> IF flush
                    THEN Append(st.chunks,
                             WordChunk(st.current_parts, st.current_tokens, st.text_position,
                                       st.chunk_index))
                    ELSE st.chunks,
         current_parts |-> Append(IF flush THEN seed ELSE st.current_parts, word),
         current_tokens |->
             (IF flush THEN SumTokens(name, seed) ELSE st.current_tokens) + word_tokens,
         chunk_index |-> NextChunkIndex(flush, st.chunk_index),
         text_position |-> st.text_position + Len(word) + 1]

\* the final flush of _chunk_token_aware: the list it returns
TokenAwareFlush(st) ==
    IF st.current_parts # <<>>
    THEN Append(st.chunks,
             WordChunk(st.current_parts, st.current_tokens, st.text_position, st.chunk_index))
    ELSE st.chunks

\* the locals of the running loop, as the record the loop bodies work on
Locals ==
    [chunks |-> chunks, current_parts |-> current_parts, current_tokens |-> current_tokens,
     chunk_index |-> chunk_index, text_position |-> text_position]

RECURSIVE TokenAwareLoop(_, _, _, _)
\* the for loop and the final flush of _chunk_token_aware
TokenAwareLoop(ws, st, name, cfg) ==
    IF ws = <<>>
    THEN TokenAwareFlush(st)
    ELSE TokenAwareLoop(Tail(ws), TokenAwareBody(st, Head(ws), name, cfg), name, cfg)

\* chunker.chunk_text(text, tokenizer_func) as a function of its arguments
ChunkTextResult(t, cfg, name) ==
    LET d == Dispatch(t, cfg)
    IN  IF d.pc = "done" THEN <<>>
        ELSE IF d.pc = "combine" THEN CombineIntoChunks(d.parts, t, name, d.separator, cfg)
        ELSE TokenAwareLoop(d.parts, CombineStart, name, cfg)

-----------------------------------------------------------------------------
(* The state machine *)

\* no call of the cleaner is under way
CleanerIdle ==
    /\ cleaner = "none"
    /\ raw_text = <<>>
    /\ cleaned = <<>>
    /\ recleaned = <<>>
    /\ passes = 0
    /\ flags = [remove_headers |-> TRUE, normalize_whitespace |-> TRUE,
                strip_bullets |-> TRUE]

\* ProcessingConfig(): the defaults of the dataclass
DefaultProcessingConfig ==
    [remove_headers |-> TRUE, normalize_whitespace |-> TRUE, strip_bullets |-> TRUE,
     chunk_method |-> "paragraph", max_tokens |-> 1024, overlap_tokens |-> 0,
     custom_delimiter |-> NoneValue, tokenizer |-> "word-estimate",
     preserve_structure |-> TRUE, include_metadata |-> TRUE]

\* the locals of process_file_async before its first stage
EmptyFrame ==
    [config |-> DefaultProcessingConfig,
     parsed_file |-> [text |-> <<>>, format |-> ""],
     cleaned_text |-> <<>>,
     chunks |-> <<>>]

\* no call of the processor is under way
ProcessorIdle ==
    /\ self_config = DefaultProcessingConfig
    /\ call = [tokenizer |-> NoneValue, max_tokens |-> NoneValue, kwargs |-> <<>>,
               extension |-> ".txt", exists |-> FALSE, content |-> <<>>, fault |-> "none"]
    /\ stage = "idle"
    /\ frame = EmptyFrame
    /\ processing_result = NoneValue
    /\ error = <<>>

\* no module-level function is under call
FunctionsIdle ==
    /\ fn = "none"
    /\ args = <<>>
    /\ ret = NoneValue
    /\ exc = ""

JobIds == {"job-1", "job-2"}

\* at most this many calls of process_file_background are suspended per job
MaxTasks == 2

\* no call of process_file_background is suspended
NoTask == [parsing |-> 0, chunking |-> 0]

\* ProcessingService(): no job, no result, no background task, no call yet
ServiceIdle ==
    /\ jobs = [j \in JobIds |-> NoneValue]
    /\ results = {}
    /\ task = [j \in JobIds |-> NoTask]
    /\ cancel_call = NoneValue
    /\ acknowledged = {}

Init ==
    /\ \/ /\ text \in Texts
          /\ config \in Configs
          /\ tokenizer \in Tokenizers
       \/ /\ text \in ScenarioTexts
          /\ config \in ScenarioConfigs
          /\ tokenizer = "default"
    /\ pc = "start"
    /\ outcome = "pending"
    /\ parts = <<>>
    /\ separator = <<>>
    /\ pos = 0
    /\ current_parts = <<>>
    /\ current_tokens = 0
    /\ chunk_index = 0
    /\ text_position = 0
    /\ chunks = <<>>
    /\ CleanerIdle
    /\ ProcessorIdle
    /\ FunctionsIdle
    /\ ServiceIdle

\* chunk_text from its entry to the start of the method's loop
ChunkText ==
    /\ pc = "start"
    /\ LET d == Dispatch(text, config)
       IN  /\ pc' = d.pc
           /\ outcome' = d.outcome
           /\ parts' = d.parts
           /\ separator' = d.separator
    /\ UNCHANGED <<text, config, tokenizer, pos, current_parts, current_tokens,
                   chunk_index, text_position, chunks>>
    /\ UNCHANGED <<cleanerVars, processorVars, functionVars, serviceVars>>

\* one iteration of the for loop of _combine_into_chunks
CombineStep ==
    /\ pc = "combine"
    /\ pos < Len(parts)
    /\ LET st == CombineBody(Locals, parts[pos + 1], text, tokenizer, separator, config)
       IN  /\ chunks' = st.chunks
           /\ current_parts' = st.current_parts
           /\ current_tokens' = st.current_tokens
           /\ chunk_index' = st.chunk_index
           /\ text_position' = st.text_position
    /\ pos' = pos + 1
    /\ UNCHANGED <<text, config, tokenizer, pc, outcome, parts, separator>>
    /\ UNCHANGED <<cleanerVars, processorVars, functionVars, serviceVars>>

\* the end of _combine_into_chunks: the final flush and the return
CombineFinish ==
    /\ pc = "combine"
    /\ pos = Len(parts)
    /\ chunks' = CombineFlush(Locals, text, separator, config)
    /\ pc' = "done"
    /\ outcome' = "returned"
    /\ UNCHANGED <<text, config, tokenizer, parts, separator, pos, current_parts,
                   current_tokens, chunk_index, text_position>>
    /\ UNCHANGED <<cleanerVars, processorVars, functionVars, serviceVars>>

\* one iteration of the for loop of _chunk_token_aware
TokenAwareStep ==
    /\ pc = "token_aware"
    /\ pos < Len(parts)
    /\ LET st == TokenAwareBody(Locals, parts[pos + 1], tokenizer, config)
       IN  /\ chunks' = st.chunks
           /\ current_parts' = st.current_parts
           /\ current_tokens' = st.current_tokens
           /\ chunk_index' = st.chunk_index
           /\ text_position' = st.text_position
    /\ pos' = pos + 1
    /\ UNCHANGED <<text, config, tokenizer, pc, outcome, parts, separator>>
    /\ UNCHANGED <<cleanerVars, processorVars, functionVars, serviceVars>>

\* the end of _chunk_token_aware: the final flush and the return
TokenAwareFinish ==
    /\ pc = "token_aware"
    /\ pos = Len(parts)
    /\ chunks' = TokenAwareFlush(Locals)
    /\ pc' = "done"
    /\ outcome' = "returned"
    /\ UNCHANGED <<text, config, tokenizer, parts, separator, pos, current_parts,
                   current_tokens, chunk_index, text_position>>
    /\ UNCHANGED <<cleanerVars, processorVars, functionVars, serviceVars>>

Next ==
    \/ ChunkText
    \/ CombineStep
    \/ CombineFinish
    \/ TokenAwareStep
    \/ TokenAwareFinish

Spec == Init /\ [][Next]_vars

-----------------------------------------------------------------------------
(* Vocabulary of the properties *)

Done == pc = "done"

\* the text has a character that is not whitespace
NonBlank(t) == \E i \in 1..Len(t) : t[i] \notin Whitespace

ByCombiner == config.method # "token_aware"

\* paragraph, sentence, or custom with a delimiter
DelimiterMethod ==
    \/ config.method \in {"paragraph", "sentence"}
    \/ config.method = "custom" /\ ~NoDelimiter(config)

\* unknown method, or custom without a delimiter
InvalidConfig ==
    \/ config.method \notin KnownMethods
    \/ config.method = "custom" /\ NoDelimiter(config)

\* the separator of the configured method
MethodSeparator ==
    IF config.method = "sentence" THEN <<" ">>
    ELSE IF config.method = "custom" /\ ~NoDelimiter(config) THEN TheDelimiter(config)
    ELSE <<"\n", "\n">>

\* the stripped non-empty pieces the configured method cuts the text into
MethodParts ==
    IF config.method = "sentence" THEN SentenceParts(text)
    ELSE IF config.method = "custom" /\ ~NoDelimiter(config)
         THEN CustomParts(text, TheDelimiter(config))
    ELSE ParagraphParts(text)

ChunkTexts == [i \in 1..Len(chunks) |-> chunks[i].text]

RECURSIVE PartCountBefore(_)
\* the number of parts in the chunks before chunk i
PartCountBefore(i) ==
    IF i <= 1 THEN 0 ELSE PartCountBefore(i - 1) + chunks[i - 1].metadata.part_count

\* the parts joined into chunk i by the combiner, by the chunks' part_count
PartsOfChunk(i) ==
    SubSeq(parts, PartCountBefore(i) + 1, PartCountBefore(i) + chunks[i].metadata.part_count)

\* the words of chunk i (token_aware)
WordsOfChunk(i) == SplitWs(chunks[i].text)

RECURSIVE Content(_, _)
\* the characters of s outside the set drop, in order
Content(s, drop) ==
    IF s = <<>> THEN <<>>
    ELSE (IF Head(s) \in drop THEN <<>> ELSE <<Head(s)>>) \o Content(Tail(s), drop)

SeparatorChars == {MethodSeparator[i] : i \in 1..Len(MethodSeparator)}

SetMax(S) == CHOOSE x \in S : \A y \in S : x >= y

Suffix(ws, l) == SubSeq(ws, Len(ws) - l + 1, Len(ws))

\* the length of the longest suffix of ws whose words' tokens sum to at most limit
LongestFit(ws, limit) ==
    SetMax({l \in 0..Len(ws) : SumTokens(tokenizer, Suffix(ws, l)) <= limit})

-----------------------------------------------------------------------------
(* C1 *)

\* C1 as stated: for paragraph, sentence and custom, joining the returned
\* chunks' text with the method's separator reproduces the non-blank input
\* text exactly.
C1_JoinReproducesInput ==
    (Done /\ DelimiterMethod /\ NonBlank(text))
        => Join(MethodSeparator, ChunkTexts) = text

\* C1 amended: joining the chunks' text with the separator gives the
\* separator-join of the stripped non-empty pieces of the input, so no
\* character other than whitespace and separator characters is lost or
\* duplicated; the input itself comes back only when it already has that form.
C1_JoinReproducesParts ==
    (Done /\ DelimiterMethod /\ NonBlank(text))
        => LET joined == Join(MethodSeparator, ChunkTexts)
               drop == Whitespace \cup SeparatorChars
           IN  /\ joined = Join(MethodSeparator, MethodParts)
               /\ Content(joined, drop) = Content(text, drop)
               /\ (joined = text) <=> (text = Join(MethodSeparator, MethodParts))

C1_Witness ==
    /\ Done /\ DelimiterMethod /\ NonBlank(text)
    /\ Len(chunks) >= 2
    /\ Join(MethodSeparator, ChunkTexts) # text

-----------------------------------------------------------------------------
(* C2 *)

\* C2: in the combiner a chunk's token_count exceeds max_tokens if and only if
\* the chunk is exactly one part whose own token count exceeds max_tokens, and
\* every such part is the whole text of a chunk of its own.
C2_SoftBound ==
    (Done /\ ByCombiner)
        => /\ \A i \in 1..Len(chunks) :
                 (chunks[i].token_count > config.max_tokens)
                     <=> /\ Len(PartsOfChunk(i)) = 1
                         /\ TokenizerFunc(tokenizer, PartsOfChunk(i)[1]) > config.max_tokens
                         /\ chunks[i].text = PartsOfChunk(i)[1]
           /\ \A j \in 1..Len(parts) :
                 TokenizerFunc(tokenizer, parts[j]) > config.max_tokens
                     => \E i \in 1..Len(chunks) :
                           /\ PartCountBefore(i) = j - 1
                           /\ chunks[i].metadata.part_count = 1
                           /\ chunks[i].text = parts[j]

C2_Witness ==
    /\ Done /\ ByCombiner
    /\ Len(chunks) >= 2
    /\ \E i \in 1..Len(chunks) : chunks[i].token_count > config.max_tokens
    /\ \E i \in 1..Len(chunks) : chunks[i].token_count <= config.max_tokens

-----------------------------------------------------------------------------
(* C3 *)

\* the largest per-word token count of the input
MaxWordTokens ==
    SetMax({0} \cup {TokenizerFunc(tokenizer, SplitWs(text)[j]) : j \in 1..Len(SplitWs(text))})

\* C3: in token_aware mode, for every max_tokens >= 1 and overlap_tokens >= 0,
\* every returned chunk's token_count is at most max_tokens plus the token
\* count of one word.
C3_TokenBound ==
    (Done /\ config.method = "token_aware")
        => \A i \in 1..Len(chunks) :
              chunks[i].token_count <= config.max_tokens + MaxWordTokens

-----------------------------------------------------------------------------
(* C4 *)

\* C4: in token_aware mode with overlap_tokens = k > 0, the words of chunk i+1
\* begin with the longest suffix of chunk i's words whose tokens sum to at
\* most k.
C4_OverlapIsLongestSuffix ==
    (config.method = "token_aware" /\ config.overlap_tokens > 0)
        => \A i \in 1..(Len(chunks) - 1) :
              LET l == LongestFit(WordsOfChunk(i), config.overlap_tokens)
              IN  /\ Len(WordsOfChunk(i + 1)) >= l
                  /\ SubSeq(WordsOfChunk(i + 1), 1, l) = Suffix(WordsOfChunk(i), l)
                  /\ SumTokens(tokenizer, SubSeq(WordsOfChunk(i + 1), 1, l))
                         <= config.overlap_tokens

C4_Witness ==
    /\ Done /\ config.method = "token_aware" /\ config.overlap_tokens > 0
    /\ Len(chunks) >= 3
    /\ \E i \in 1..(Len(chunks) - 1) :
          LET l == LongestFit(WordsOfChunk(i), config.overlap_tokens)
          IN  l >= 1 /\ l < Len(WordsOfChunk(i))

-----------------------------------------------------------------------------
(* C5 *)

\* C5: at every point of the loops and on return, the k-th chunk emitted has
\* chunk_index k (counting from 0), and inside the loops the running
\* chunk_index is the number of chunks emitted so far.
C5_IndexContiguity ==
    /\ \A i \in 1..Len(chunks) : chunks[i].chunk_index = i - 1
    /\ pc \in {"combine", "token_aware"} => chunk_index = Len(chunks)

C5_Witness ==
    /\ Done /\ config.method = "token_aware" /\ config.overlap_tokens > 0
    /\ Len(chunks) >= 3
    /\ chunks[3].chunk_index = 2

-----------------------------------------------------------------------------
(* C6 *)

\* C6: for the empty string and every whitespace-only string, under every
\* configuration and estimator, chunk_text returns the empty list at once and
\* never raises.
C6_BlankReturnsEmpty ==
    ~NonBlank(text)
        => /\ outcome # "raised"
           /\ pc \in {"start", "done"}
           /\ Done => (outcome = "returned" /\ chunks = <<>>)

C6_Witness ==
    /\ Done /\ text # <<>> /\ ~NonBlank(text)
    /\ config.method \notin KnownMethods
    /\ outcome = "returned" /\ chunks = <<>>

-----------------------------------------------------------------------------
(* C7 *)

\* the parts (combiner) or words (token_aware) chunk i was assembled from
UnitsOfChunk(i) == IF ByCombiner THEN PartsOfChunk(i) ELSE WordsOfChunk(i)

\* C7 as stated: every returned chunk's token_count equals the estimator
\* applied to the chunk's assembled text.
C7_TokenCountOfText ==
    Done => \A i \in 1..Len(chunks) :
               chunks[i].token_count = TokenizerFunc(tokenizer, chunks[i].text)

\* C7 amended: every returned chunk's token_count is the sum of the estimator
\* applied to each part (paragraph, sentence, custom) or word (token_aware)
\* the chunk was assembled from; it is the estimate of the assembled text
\* when the chunk is a single part or word.
C7_TokenCountIsSumOfParts ==
    Done => \A i \in 1..Len(chunks) :
               /\ chunks[i].token_count = SumTokens(tokenizer, UnitsOfChunk(i))
               /\ Len(UnitsOfChunk(i)) = 1
                     => chunks[i].token_count = TokenizerFunc(tokenizer, chunks[i].text)

C7_Witness ==
    /\ Done
    /\ Len(chunks) >= 2
    /\ \E i \in 1..Len(chunks) :
          /\ Len(UnitsOfChunk(i)) >= 2
          /\ chunks[i].token_count # TokenizerFunc(tokenizer, chunks[i].text)

-----------------------------------------------------------------------------
(* C8 *)

\* C8: on non-blank text, an unknown method and the custom method
\* without a delimiter are reported as a configuration error and no chunks
\* are returned.
C8_InvalidConfigRaises ==
    (Done /\ NonBlank(text) /\ InvalidConfig)
        => (outcome = "raised" /\ chunks = <<>>)

-----------------------------------------------------------------------------
(* C9 *)

\* C9: for the chunks returned by paragraph, sentence or custom, positions are
\* monotone: 0 <= start < end for every chunk, and each chunk starts no
\* earlier than the previous one starts and no earlier than it ends.
C9_PositionsMonotone ==
    (Done /\ DelimiterMethod)
        => /\ \A i \in 1..Len(chunks) :
                 /\ 0 <= chunks[i].start_position
                 /\ chunks[i].start_position < chunks[i].end_position
           /\ \A i \in 1..(Len(chunks) - 1) :
                 /\ chunks[i + 1].start_position >= chunks[i].start_position
                 /\ chunks[i + 1].start_position >= chunks[i].end_position

-----------------------------------------------------------------------------
(* C10 *)

\* three two-word paragraphs, paragraph method, default estimator, max_tokens 5
Scenario2 ==
    /\ text \in ScenarioTexts
    /\ config.method = "paragraph"
    /\ config.max_tokens = 5
    /\ tokenizer = "default"

Paragraph1 == SubSeq(text, 1, 3)

Paragraph2 == SubSeq(text, 6, 8)

Paragraph3 == SubSeq(text, 11, 13)

\* C10 as stated: the scenario returns exactly 3 chunks, one paragraph per
\* chunk, with chunk_index 0, 1, 2.
C10_ThreeChunks ==
    (Done /\ Scenario2)
        => /\ Len(chunks) = 3
           /\ ChunkTexts = <<Paragraph1, Paragraph2, Paragraph3>>
           /\ \A i \in 1..Len(chunks) : chunks[i].chunk_index = i - 1

\* C10 amended: the scenario returns exactly 2 chunks: the first two
\* paragraphs joined by a blank line (2 + 2 = 4 tokens, within 5) with
\* chunk_index 0, and the third paragraph alone (2 tokens) with chunk_index 1.
C10_TwoChunks ==
    (Done /\ Scenario2)
        => /\ Len(chunks) = 2
           /\ chunks[1].text = Paragraph1 \o <<"\n", "\n">> \o Paragraph2
           /\ chunks[1].token_count = 4
           /\ chunks[1].chunk_index = 0
           /\ chunks[2].text = Paragraph3
           /\ chunks[2].token_count = 2
           /\ chunks[2].chunk_index = 1

C10_Witness ==
    /\ Done /\ Scenario2
    /\ Len(chunks) = 2
    /\ chunks[2].text = Paragraph3

-----------------------------------------------------------------------------
(* C11: the metadata of a chunk *)

ConfigMetadataKeys ==
    {"method", "max_tokens", "overlap_tokens", "character_count", "word_count"}

\* C11: the metadata of every returned chunk contains the keys
\* method, max_tokens, overlap_tokens, character_count and word_count, and
\* the chunks of the delimiter-based methods also carry the separator used.
C11_MetadataHasConfigKeys ==
    Done => \A i \in 1..Len(chunks) :
                /\ ConfigMetadataKeys \subseteq DOMAIN chunks[i].metadata
                /\ ByCombiner => /\ "separator" \in DOMAIN chunks[i].metadata
                                 /\ chunks[i].metadata.separator = MethodSeparator

-----------------------------------------------------------------------------
(* The cleaner (src/wolfcore/cleaner.py): clean_code_content and            *)
(* clean_data_content                                                       *)

MaxCodeLen == 8

\* the texts handed to the code and data cleaners
CodeTexts == UNION {[1..n -> {"a", " ", "\n"}] : n \in 0..MaxCodeLen}

\* the longest run of blank lines between two lines of a section text
MaxBlankRun == 4

\* a line without and a line with indentation and trailing whitespace
SectionLines == {<<"a">>, <<" ", "a", " ">>}

\* k line ends in a row: k - 1 blank lines
LineEnds == {[i \in 1..k |-> "\n"] : k \in 1..(MaxBlankRun + 1)}

\* four lines separated by runs of blank lines
SectionTexts ==
    {l1 \o e1 \o l2 \o e2 \o l3 \o e3 \o l4 :
        l1 \in SectionLines, l2 \in SectionLines, l3 \in SectionLines, l4 \in SectionLines,
        e1 \in LineEnds, e2 \in LineEnds, e3 \in LineEnds}

\* text.split('\n')
SplitLines(t) == SplitOn(t, <<"\n">>)

RECURSIVE RStripOnceEach(_)
\* a variant of RStripEach removing at most one trailing whitespace character
RStripOnceEach(ls) ==
    IF ls = <<>> THEN <<>>
    ELSE <<IF Head(ls) # <<>> /\ Head(ls)[Len(Head(ls))] \in Whitespace
           THEN SubSeq(Head(ls), 1, Len(Head(ls)) - 1)
           ELSE Head(ls)>> \o RStripOnceEach(Tail(ls))

RECURSIVE RStripEach(_)
\* [line.rstrip() for line in lines]
RStripEach(ls) ==
    IF ls = <<>> THEN <<>> ELSE <<RStrip(Head(ls))>> \o RStripEach(Tail(ls))

\* max_blank_sections
MaxBlankSections == 2

RECURSIVE CodeBlankLoop(_, _, _, _)
\* the blank-line loop of clean_code_content over cleaned_lines
CodeBlankLoop(ls, consecutive_blanks, total_blank_sections, result) ==
    IF ls = <<>> THEN result
    ELSE IF Head(ls) = <<>>
         THEN CodeBlankLoop(Tail(ls), consecutive_blanks + 1, total_blank_sections,
                            IF /\ consecutive_blanks + 1 <= 1
                               /\ total_blank_sections < MaxBlankSections
                            THEN Append(result, <<>>)
                            ELSE result)
         ELSE CodeBlankLoop(Tail(ls), 0,
                            IF consecutive_blanks > 0
                            THEN total_blank_sections + 1
                            ELSE total_blank_sections,
                            Append(result, Head(ls)))

\* a variant of CleanCodeContent without the final strip()
CleanCodeContentNoStrip(t) ==
    IF t = <<>> THEN t
    ELSE Join(<<"\n">>, CodeBlankLoop(RStripEach(SplitLines(t)), 0, 0, <<>>))

\* clean_code_content(text)
CleanCodeContent(t) ==
    IF t = <<>> THEN t
    ELSE Strip(Join(<<"\n">>, CodeBlankLoop(RStripEach(SplitLines(t)), 0, 0, <<>>)))

\* the number of consecutive blank lines clean_data_content keeps
MaxDataBlanks == 3

RECURSIVE DataBlankLoop(_, _, _)
\* the blank-line loop of clean_data_content over cleaned_lines
DataBlankLoop(ls, blank_count, result) ==
    IF ls = <<>> THEN result
    ELSE IF Head(ls) = <<>>
         THEN DataBlankLoop(Tail(ls), blank_count + 1,
                            IF blank_count + 1 <= MaxDataBlanks
                            THEN Append(result, Head(ls))
                            ELSE result)
         ELSE DataBlankLoop(Tail(ls), 0, Append(result, Head(ls)))

\* clean_data_content(text)
CleanDataContent(t) ==
    IF t = <<>> THEN t
    ELSE Strip(Join(<<"\n">>, DataBlankLoop(RStripEach(SplitLines(t)), 0, <<>>)))

-----------------------------------------------------------------------------
(* The cleaner: clean_document_content.  Each re.sub is the operator ReSub  *)
(* applied to the match of its pattern: PatternEnd(pat, t, i) is the index   *)
(* after the match of pat that starts at index i of t, or 0 without a match. *)

MaxDocLen == 4

Digits == {"0", "1", "2", "3", "4", "5", "6", "7", "8", "9"}

\* the character class of the bullet pattern: the bullet sign U+2022 (in no
\* text of the model), - and *
BulletChars == {"-", "*"}

\* the character class [ \t]
SpaceChars == {" ", "\t"}

\* re.IGNORECASE on the letters of the markers
Fold(c) ==
    CASE c = "s" -> "S" [] c = "t" -> "T" [] c = "a" -> "A" [] c = "r" -> "R"
      [] c = "o" -> "O" [] c = "f" -> "F" [] c = "e" -> "E" [] c = "n" -> "N"
      [] c = "d" -> "D" [] OTHER -> c

StartOfMarker == <<"*", "*", "*", " ", "S", "T", "A", "R", "T", " ", "O", "F">>

EndOfMarker == <<"*", "*", "*", " ", "E", "N", "D", " ", "O", "F">>

MarkerClose == <<"*", "*", "*">>

PageWord == <<"P", "a", "g", "e", " ">>

OfWord == <<" ", "o", "f", " ">>

\* the literal lit stands at index i of t
LiteralAt(t, i, lit) ==
    /\ i + Len(lit) - 1 <= Len(t)
    /\ \A k \in 1..Len(lit) : t[i + k - 1] = lit[k]

\* the literal lit stands at index i of t, letter case ignored
FoldedLiteralAt(t, i, lit) ==
    /\ i + Len(lit) - 1 <= Len(t)
    /\ \A k \in 1..Len(lit) : Fold(t[i + k - 1]) = Fold(lit[k])

\* ^ under re.MULTILINE
IsLineStart(t, i) == i = 1 \/ t[i - 1] = "\n"

\* $ under re.MULTILINE
IsLineEnd(t, i) == i = Len(t) + 1 \/ t[i] = "\n"

\* the index after the longest run of characters of S that starts at index i
RunEnd(t, i, S) ==
    SetMin({j \in i..(Len(t) + 1) : j = Len(t) + 1 \/ t[j] \notin S})

\* the index after the line index i lies in: .* up to $
LineEnd(t, i) ==
    SetMin({j \in i..(Len(t) + 1) : j = Len(t) + 1 \/ t[j] = "\n"})

\* marker.*?\*\*\* with IGNORECASE and DOTALL: up to the nearest closing ***
MarkedEnd(t, i, marker) ==
    LET from == i + Len(marker)
        closes == {j \in from..Len(t) : LiteralAt(t, j, MarkerClose)}
    IN  IF FoldedLiteralAt(t, i, marker) /\ closes # {}
        THEN SetMin(closes) + Len(MarkerClose)
        ELSE 0

\* ^Page \d+ of \d+.*$
PageOfEnd(t, i) ==
    LET d1 == RunEnd(t, i + Len(PageWord), Digits)
        d2 == RunEnd(t, d1 + Len(OfWord), Digits)
    IN  IF /\ IsLineStart(t, i)
           /\ LiteralAt(t, i, PageWord)
           /\ d1 > i + Len(PageWord)
           /\ LiteralAt(t, d1, OfWord)
           /\ d2 > d1 + Len(OfWord)
        THEN LineEnd(t, d2)
        ELSE 0

\* ^\d+\s*$: \s* gives back whitespace until it stops at the end of a line
PageNumberEnd(t, i) ==
    LET d == RunEnd(t, i, Digits)
        w == RunEnd(t, d, Whitespace)
        stops == {e \in d..w : IsLineEnd(t, e)}
    IN  IF IsLineStart(t, i) /\ d > i /\ stops # {}
        THEN CHOOSE e \in stops : \A x \in stops : x <= e
        ELSE 0

\* ^\s*\d+\.\s+
NumberingEnd(t, i) ==
    LET w == RunEnd(t, i, Whitespace)
        d == RunEnd(t, w, Digits)
        e == RunEnd(t, d + 1, Whitespace)
    IN  IF /\ IsLineStart(t, i)
           /\ d > w
           /\ d <= Len(t) /\ t[d] = "."
           /\ e > d + 1
        THEN e
        ELSE 0

\* (?<!\n)\n(?!\n)
SingleNewlineEnd(t, i) ==
    IF /\ t[i] = "\n"
       /\ (i = 1 \/ t[i - 1] # "\n")
       /\ (i = Len(t) \/ t[i + 1] # "\n")
    THEN i + 1
    ELSE 0

\* ^ +
LeadingSpacesEnd(t, i) ==
    IF IsLineStart(t, i) /\ t[i] = " " THEN RunEnd(t, i, {" "}) ELSE 0

\* ' +$'
TrailingSpacesEnd(t, i) ==
    IF t[i] = " " /\ IsLineEnd(t, RunEnd(t, i, {" "})) THEN RunEnd(t, i, {" "}) ELSE 0

\* \n{3,}
NewlineRunEnd(t, i) ==
    IF t[i] = "\n" /\ RunEnd(t, i, {"\n"}) >= i + 3 THEN RunEnd(t, i, {"\n"}) ELSE 0

PatternEnd(pat, t, i) ==
    CASE pat = "start_of" -> MarkedEnd(t, i, StartOfMarker)
      [] pat = "end_of" -> MarkedEnd(t, i, EndOfMarker)
      [] pat = "page_of" -> PageOfEnd(t, i)
      [] pat = "page_number" -> PageNumberEnd(t, i)
      [] pat = "bullet" -> IF t[i] \in BulletChars THEN i + 1 ELSE 0
      [] pat = "numbering" -> NumberingEnd(t, i)
      [] pat = "single_newline" -> SingleNewlineEnd(t, i)
      [] pat = "spaces" -> IF t[i] \in SpaceChars THEN RunEnd(t, i, SpaceChars) ELSE 0
      [] pat = "leading_spaces" -> LeadingSpacesEnd(t, i)
      [] pat = "trailing_spaces" -> TrailingSpacesEnd(t, i)
      [] pat = "newline_run" -> NewlineRunEnd(t, i)

RECURSIVE ReSubFrom(_, _, _, _, _)
\* re.sub scanning t from index i: leftmost matches, none overlapping
ReSubFrom(pat, repl, t, i, acc) ==
    IF i > Len(t) THEN acc
    ELSE IF PatternEnd(pat, t, i) > i
         THEN ReSubFrom(pat, repl, t, PatternEnd(pat, t, i), acc \o repl)
         ELSE ReSubFrom(pat, repl, t, i + 1, Append(acc, t[i]))

\* re.sub(pat, repl, t)
ReSub(pat, repl, t) == ReSubFrom(pat, repl, t, 1, <<>>)

\* the remove_headers block
RemoveHeaders(t) ==
    ReSub("page_number", <<>>,
        ReSub("page_of", <<>>,
            ReSub("end_of", <<>>,
                ReSub("start_of", <<>>, t))))

\* the strip_bullets block
StripBullets(t) ==
    ReSub("numbering", <<>>, ReSub("bullet", <<>>, t))

\* the normalize_whitespace block
NormalizeWhitespace(t) ==
    ReSub("newline_run", <<"\n", "\n">>,
        ReSub("trailing_spaces", <<>>,
            ReSub("leading_spaces", <<>>,
                ReSub("spaces", <<" ">>,
                    ReSub("single_newline", <<" ">>, t)))))

\* the flags of clean_document_content as the ProcessingConfig sets them
DefaultFlags ==
    [remove_headers |-> TRUE, normalize_whitespace |-> TRUE, strip_bullets |-> TRUE]

FlagSets == [remove_headers : BOOLEAN, normalize_whitespace : BOOLEAN, strip_bullets : BOOLEAN]

\* clean_document_content(text, remove_headers, normalize_whitespace, strip_bullets)
CleanDocumentContent(t, fl) ==
    IF t = <<>> THEN t
    ELSE LET t1 == IF fl.remove_headers THEN RemoveHeaders(t) ELSE t
             t2 == IF fl.strip_bullets THEN StripBullets(t1) ELSE t1
             t3 == IF fl.normalize_whitespace THEN NormalizeWhitespace(t2) ELSE t2
         IN  Strip(t3)

DocTexts ==
    UNION {[1..n -> {"a", "1", ".", "-", " ", "\n"}] : n \in 0..MaxDocLen}

\* header and footer lines of documents, and lines that only resemble them
HeaderLines ==
    {<<"*", "*", "*", " ", "S", "T", "A", "R", "T", " ", "O", "F", " ", "x", " ", "*", "*", "*">>,
     <<"*", "*", "*", " ", "s", "t", "a", "r", "t", " ", "o", "f", " ", "x", "\n", "y", " ", "*", "*", "*">>,
     <<"*", "*", "*", " ", "E", "n", "d", " ", "O", "f", " ", "x", " ", "*", "*", "*">>,
     <<"P", "a", "g", "e", " ", "1", " ", "o", "f", " ", "2", " ", "x">>,
     <<"p", "a", "g", "e", " ", "1", " ", "o", "f", " ", "2">>,
     <<"*", "*", "*", " ", "S", "T", "A", "R", "T", " ", "O", "F", " ", "x">>}

\* a header line inside a short document
HeaderTexts ==
    {before \o h \o after :
        before \in {<<>>, <<"a", "\n">>, <<" ">>},
        h \in HeaderLines,
        after \in {<<>>, <<"\n", "a">>, <<" ", "*", "*", "*">>, <<"\n", "\n", "2", "\n", "\n", "\n", "a">>}}

-----------------------------------------------------------------------------
(* The cleaner as a state machine: a call, then a call on what it returned *)

\* the function of cleaner.py the variable cleaner names
ApplyCleaner(name, t, fl) ==
    IF name = "clean_code_content" THEN CleanCodeContent(t)
    ELSE IF name = "clean_data_content" THEN CleanDataContent(t)
    ELSE CleanDocumentContent(t, fl)

\* the chunker is not under call
ChunkerIdle ==
    /\ text = <<>>
    /\ config = [method |-> "paragraph", max_tokens |-> 1, overlap_tokens |-> 0,
                 custom_delimiter |-> NoneValue]
    /\ tokenizer = "default"
    /\ pc = "idle"
    /\ outcome = "pending"
    /\ parts = <<>>
    /\ separator = <<>>
    /\ pos = 0
    /\ current_parts = <<>>
    /\ current_tokens = 0
    /\ chunk_index = 0
    /\ text_position = 0
    /\ chunks = <<>>

InitCleaner ==
    /\ ChunkerIdle
    /\ \/ /\ cleaner \in {"clean_code_content", "clean_data_content"}
          /\ raw_text \in CodeTexts \cup SectionTexts
          /\ flags = DefaultFlags
       \/ /\ cleaner = "clean_document_content"
          /\ raw_text \in DocTexts \cup HeaderTexts
          /\ flags \in FlagSets
    /\ cleaned = <<>>
    /\ recleaned = <<>>
    /\ passes = 0
    /\ ProcessorIdle
    /\ FunctionsIdle
    /\ ServiceIdle

\* one call of the cleaner: first on raw_text, then on what it returned
CallCleaner(name) ==
    /\ cleaner = name
    /\ passes < 2
    /\ IF passes = 0
       THEN /\ cleaned' = ApplyCleaner(name, raw_text, flags)
            /\ UNCHANGED recleaned
       ELSE /\ recleaned' = ApplyCleaner(name, cleaned, flags)
            /\ UNCHANGED cleaned
    /\ passes' = passes + 1
    /\ UNCHANGED <<cleaner, raw_text, flags>>
    /\ UNCHANGED <<chunkerVars, processorVars, functionVars, serviceVars>>

CleanCode == CallCleaner("clean_code_content")

CleanData == CallCleaner("clean_data_content")

CleanDocument == CallCleaner("clean_document_content")

NextCleaner ==
    \/ CleanCode
    \/ CleanData
    \/ CleanDocument

SpecCleaner == InitCleaner /\ [][NextCleaner]_vars

-----------------------------------------------------------------------------
(* Vocabulary of the cleaner's properties *)

\* the lines of a text; the empty text has none
LinesOf(t) == IF t = <<>> THEN <<>> ELSE SplitLines(t)

\* a line that is empty or holds only whitespace
IsBlank(l) == Strip(l) = <<>>

RECURSIVE NonBlankLines(_)
\* the lines of ls that are not blank, in order
NonBlankLines(ls) ==
    IF ls = <<>> THEN <<>>
    ELSE (IF IsBlank(Head(ls)) THEN <<>> ELSE <<Head(ls)>>) \o NonBlankLines(Tail(ls))

BlankLineCount(ls) == Cardinality({i \in 1..Len(ls) : IsBlank(ls[i])})

\* ls has a run of more than n blank lines
HasBlankRun(ls, n) ==
    \E i \in 1..(Len(ls) - n) : \A j \in i..(i + n) : IsBlank(ls[j])

Cleaned(name) == cleaner = name /\ passes >= 1

Recleaned(name) == cleaner = name /\ passes = 2

-----------------------------------------------------------------------------
(* C16 .. C20: the cleaner *)

\* C16: the output of clean_code_content never has two consecutive blank
\* lines, has at most 2 blank lines in total, has no line with trailing
\* whitespace, and neither starts nor ends with a blank line.
C16_CodeOutputShape ==
    Cleaned("clean_code_content") =>
        LET ls == LinesOf(cleaned)
        IN  /\ ~HasBlankRun(ls, 1)
            /\ BlankLineCount(ls) <= MaxBlankSections
            /\ \A i \in 1..Len(ls) : RStrip(ls[i]) = ls[i]
            /\ ls # <<>> => ~IsBlank(ls[1]) /\ ~IsBlank(ls[Len(ls)])

\* a text with three blank sections between lines, one of them a run, whose
\* output keeps two blank lines and drops the later isolated one
C16_Witness ==
    LET ls == LinesOf(raw_text)
    IN  /\ Cleaned("clean_code_content")
        /\ Len(NonBlankLines(ls)) = 4
        /\ \A i \in 1..(Len(ls) - 1) : ~IsBlank(ls[i]) => IsBlank(ls[i + 1])
        /\ HasBlankRun(ls, 1)
        /\ IsBlank(ls[Len(ls) - 1]) /\ ~IsBlank(ls[Len(ls) - 2])
        /\ \E i \in 1..Len(ls) : RStrip(ls[i]) # ls[i]
        /\ BlankLineCount(LinesOf(cleaned)) = 2
        /\ Len(NonBlankLines(LinesOf(cleaned))) = 4

\* C17: clean_code_content preserves indentation: the non-blank lines of the
\* output are exactly the non-blank lines of the input, in order, each with
\* only its trailing whitespace removed, the first non-blank line included.
C17_IndentationPreserved ==
    Cleaned("clean_code_content") =>
        NonBlankLines(LinesOf(cleaned)) = RStripEach(NonBlankLines(LinesOf(raw_text)))

\* C18: clean_code_content is idempotent: cleaning its own output returns
\* that output unchanged.
C18_CodeIdempotent ==
    Recleaned("clean_code_content") => recleaned = cleaned

\* a second pass over an output that kept blank lines and indentation, from an
\* input the first pass changed
C18_Witness ==
    /\ Recleaned("clean_code_content")
    /\ cleaned # raw_text
    /\ BlankLineCount(LinesOf(cleaned)) = 2
    /\ \E i \in 1..Len(LinesOf(cleaned)) : LStrip(LinesOf(cleaned)[i]) # LinesOf(cleaned)[i]
    /\ recleaned = cleaned

\* C20: clean_data_content only right-trims lines and caps runs of blank
\* lines: the output never has more than 3 consecutive blank lines, and its
\* non-blank lines are the non-blank lines of the input, in order, each with
\* only its trailing whitespace removed, the first line included.
C20_DataOnlyRightTrims ==
    Cleaned("clean_data_content") =>
        /\ ~HasBlankRun(LinesOf(cleaned), MaxDataBlanks)
        /\ NonBlankLines(LinesOf(cleaned)) = RStripEach(NonBlankLines(LinesOf(raw_text)))

\* C19: clean_document_content with its default flags (all three on) is
\* idempotent: cleaning its own output returns that output unchanged.
C19_DocumentIdempotent ==
    (Recleaned("clean_document_content") /\ flags = DefaultFlags) => recleaned = cleaned

-----------------------------------------------------------------------------
(* The processing orchestrator (src/wolfcore/processor.py) with the parser  *)
(* entry and the content classifier it calls                                *)

MaxFileLen == 4

\* the contents of the files handed to the processor
FileTexts == UNION {[1..n -> {"a", ",", " ", "\n"}] : n \in 0..MaxFileLen}

Extensions == {".py", ".PY", ".txt", ".csv", ".zzz"}

\* str.lower() on the extensions of the model
LowerExtension(e) ==
    CASE e = ".PY" -> ".py" [] e = ".Py" -> ".py" [] e = ".XML" -> ".xml"
      [] e = ".SQL" -> ".sql" [] e = ".Csv" -> ".csv" [] e = ".JSON" -> ".json"
      [] e = ".MD" -> ".md" [] e = ".SQLite" -> ".sqlite" [] e = ".ZZZ" -> ".zzz"
      [] OTHER -> e

\* FileParser.SUPPORTED_FORMATS: the format name of an extension
SupportedFormats ==
    [e \in {".py", ".txt", ".md", ".csv"} |->
        CASE e = ".py" -> "python" [] e = ".txt" -> "txt" [] e = ".md" -> "markdown"
          [] e = ".csv" -> "csv"]

\* CODE_EXTENSIONS: the members the model's extensions can hit
CodeExtensions == {".py", ".js", ".html", ".xml", ".sql"}

\* DOCUMENT_EXTENSIONS
DocumentExtensions == {".pdf", ".docx", ".txt", ".md"}

\* DATA_EXTENSIONS
DataExtensions == {".csv", ".json", ".xlsx", ".sqlite", ".sql"}

\* detect_content_type(file_extension)
DetectContentType(file_extension) ==
    LET ext == LowerExtension(file_extension)
    IN  IF ext \in CodeExtensions THEN "code"
        ELSE IF ext \in DocumentExtensions THEN "document"
        ELSE IF ext \in DataExtensions THEN "data"
        ELSE "document"

\* clean_text(raw_text, file_extension, content_type, flags); file_extension
\* is "" and content_type {} when not given
CleanText(raw, file_extension, content_type, fl) ==
    LET ct == IF content_type # NoneValue THEN CHOOSE c \in content_type : TRUE
              ELSE IF file_extension # "" THEN DetectContentType(file_extension)
              ELSE "document"
    IN  IF raw = <<>> THEN raw
        ELSE IF ct = "code" THEN CleanCodeContent(raw)
        ELSE IF ct = "document" THEN CleanDocumentContent(raw, fl)
        ELSE IF ct = "data" THEN CleanDataContent(raw)
        ELSE CleanDocumentContent(raw, fl)

RECURSIVE FormatRows(_)
\* [" | ".join(row) for row in rows], a row being the cells between commas
FormatRows(ls) ==
    IF ls = <<>> THEN <<>>
    ELSE <<Join(<<" ", "|", " ">>, SplitOn(Head(ls), <<",">>))>> \o FormatRows(Tail(ls))

\* FileParser._parse_csv_content: csv.reader reads one row per line, and no
\* row after a final line end
ParseCsvContent(content) ==
    LET ls == SplitLines(content)
        rows == IF ls[Len(ls)] = <<>> THEN SubSeq(ls, 1, Len(ls) - 1) ELSE ls
    IN  IF rows = <<>> THEN content ELSE Join(<<"\n">>, FormatRows(rows))

\* FileParser.parse on a path: the ParsedFile, or the exception it raises with
\* its chain of causes
ParseFile(c) ==
    LET suffix == LowerExtension(c.extension)
    IN  IF ~c.exists
        THEN [ok |-> FALSE, chain |-> <<"ParsingError", "ParsingError">>]
        ELSE IF suffix \notin DOMAIN SupportedFormats
        THEN [ok |-> FALSE, chain |-> <<"ParsingError", "UnsupportedFormatError">>]
        ELSE [ok |-> TRUE,
              parsed_file |->
                  [text |-> IF SupportedFormats[suffix] = "csv"
                            THEN ParseCsvContent(c.content)
                            ELSE c.content,
                   format |-> SupportedFormats[suffix]]]

\* kwargs.get(field, default)
KwargsGet(kw, field, default) == IF field \in DOMAIN kw THEN kw[field] ELSE default

\* the truth value of an Optional[int] and of an Optional[str] argument
TruthyInt(opt) == opt # NoneValue /\ (CHOOSE v \in opt : TRUE) # 0

TruthyStr(opt) == opt # NoneValue /\ (CHOOSE v \in opt : TRUE) # ""

\* Wolfstitch._merge_config_overrides(tokenizer, max_tokens, **kwargs)
MergeConfigOverrides(cfg, tok, mt, kw) ==
    [field \in DOMAIN cfg |->
        IF field = "max_tokens"
        THEN (IF TruthyInt(mt) THEN CHOOSE v \in mt : TRUE
              ELSE KwargsGet(kw, field, cfg[field]))
        ELSE IF field = "tokenizer"
        THEN (IF TruthyStr(tok) THEN CHOOSE v \in tok : TRUE
              ELSE KwargsGet(kw, field, cfg[field]))
        ELSE KwargsGet(kw, field, cfg[field])]

\* the ChunkingConfig _chunk_text_async builds
ChunkConfigOf(cfg) ==
    [method |-> cfg.chunk_method, max_tokens |-> cfg.max_tokens,
     overlap_tokens |-> cfg.overlap_tokens, custom_delimiter |-> cfg.custom_delimiter]

RECURSIVE SumTokenCounts(_)
\* sum(chunk.token_count for chunk in chunks)
SumTokenCounts(chs) ==
    IF chs = <<>> THEN 0 ELSE Head(chs).token_count + SumTokenCounts(Tail(chs))

RECURSIVE SumTextLengths(_)
\* sum(len(chunk.text) for chunk in chunks)
SumTextLengths(chs) ==
    IF chs = <<>> THEN 0 ELSE Len(Head(chs).text) + SumTextLengths(Tail(chs))

\* n / d if d else 0: the quotient as a fraction, 0 as 0/1
QuotientOrZero(n, d) ==
    IF d # 0 THEN [num |-> n, den |-> d] ELSE [num |-> 0, den |-> 1]

\* a variant of BuildProcessingResult counting the characters of the parsed
\* text instead of those of the chunks
BuildProcessingResultFromText(chs, parsed_file, cfg) ==
    [chunks |-> chs,
     total_chunks |-> Len(chs),
     total_tokens |-> SumTokenCounts(chs),
     total_characters |-> Len(parsed_file.text),
     file_info |-> [format |-> parsed_file.format,
                    original_length |-> Len(parsed_file.text)],
     metadata |->
         [processing_config |->
              [tokenizer |-> cfg.tokenizer, chunk_method |-> cfg.chunk_method,
               max_tokens |-> cfg.max_tokens, overlap_tokens |-> cfg.overlap_tokens],
          statistics |->
              [avg_tokens_per_chunk |-> QuotientOrZero(SumTokenCounts(chs), Len(chs)),
               avg_chars_per_chunk |-> QuotientOrZero(Len(parsed_file.text), Len(chs)),
               compression_ratio |->
                   QuotientOrZero(Len(parsed_file.text), Len(parsed_file.text))]]]

\* Wolfstitch._build_processing_result, without the clock and the file's name,
\* size and encoding
BuildProcessingResult(chs, parsed_file, cfg) ==
    [chunks |-> chs,
     total_chunks |-> Len(chs),
     total_tokens |-> SumTokenCounts(chs),
     total_characters |-> SumTextLengths(chs),
     file_info |-> [format |-> parsed_file.format,
                    original_length |-> Len(parsed_file.text)],
     metadata |->
         [processing_config |->
              [tokenizer |-> cfg.tokenizer, chunk_method |-> cfg.chunk_method,
               max_tokens |-> cfg.max_tokens, overlap_tokens |-> cfg.overlap_tokens],
          statistics |->
              [avg_tokens_per_chunk |-> QuotientOrZero(SumTokenCounts(chs), Len(chs)),
               avg_chars_per_chunk |-> QuotientOrZero(SumTextLengths(chs), Len(chs)),
               compression_ratio |->
                   QuotientOrZero(SumTextLengths(chs), Len(parsed_file.text))]]]

\* a variant of RaiseProcessingError letting the exception of the stage escape
EscapeUnwrapped(stage_chain) ==
    /\ stage' = "raised"
    /\ error' = stage_chain
    /\ UNCHANGED <<self_config, call, frame, processing_result>>

\* except Exception as e: raise ProcessingError(...) from e
RaiseProcessingError(stage_chain) ==
    /\ stage' = "raised"
    /\ error' = <<"ProcessingError">> \o stage_chain
    /\ UNCHANGED <<self_config, call, frame, processing_result>>

\* the configurations a processor is built with
ProcessorConfigs ==
    {[DefaultProcessingConfig EXCEPT !.tokenizer = tk, !.chunk_method = m,
                                     !.max_tokens = mt, !.custom_delimiter = d] :
        tk \in {"word-estimate", "char-estimate"}, m \in {"paragraph", "token_aware"},
        mt \in {1, 1024}, d \in {NoneValue, {<<",">>}}}

\* the keyword overrides of a call
KwargSets ==
    {<<>>,
     [chunk_method |-> "sentence"],
     [remove_headers |-> FALSE, overlap_tokens |-> 1],
     [custom_delimiter |-> NoneValue],
     [chunk_method |-> "custom", custom_delimiter |-> {<<"a">>}]}

Stages == {"merge", "parse", "clean", "chunk", "stats"}

\* a small file for the calls that vary the overrides or the failing stage
SampleTexts == {<<>>, <<"a", " ", "a">>, <<"a", " ", "a", "\n", "\n", "a">>}

InitProcessor ==
    /\ ChunkerIdle
    /\ CleanerIdle
    /\ FunctionsIdle
    /\ ServiceIdle
    /\ \/ /\ self_config \in {c \in ProcessorConfigs :
                                c.custom_delimiter = NoneValue /\ c.max_tokens = 1}
          /\ \E x \in Extensions, t \in FileTexts :
                call = [tokenizer |-> NoneValue, max_tokens |-> NoneValue, kwargs |-> <<>>,
                        extension |-> x, exists |-> TRUE, content |-> t, fault |-> "none"]
       \/ /\ self_config = DefaultProcessingConfig
          /\ \E x \in Extensions, e \in BOOLEAN, t \in SampleTexts, f \in Stages :
                call = [tokenizer |-> NoneValue, max_tokens |-> NoneValue, kwargs |-> <<>>,
                        extension |-> x, exists |-> e, content |-> t, fault |-> f]
       \/ /\ self_config \in ProcessorConfigs
          /\ \E tk \in {NoneValue, {""}, {"char-estimate"}, {"word-estimate"}},
                mt \in {NoneValue, {0}, {1}, {2}},
                kw \in KwargSets, t \in SampleTexts :
                call = [tokenizer |-> tk, max_tokens |-> mt, kwargs |-> kw,
                        extension |-> ".txt", exists |-> TRUE, content |-> t,
                        fault |-> "none"]
    /\ stage = "merge"
    /\ frame = EmptyFrame
    /\ processing_result = NoneValue
    /\ error = <<>>

\* config = self._merge_config_overrides(tokenizer, max_tokens, **kwargs)
MergeStage ==
    /\ stage = "merge"
    /\ IF call.fault = "merge"
       THEN RaiseProcessingError(<<"Exception">>)
       ELSE /\ frame' = [frame EXCEPT !.config =
                            MergeConfigOverrides(self_config, call.tokenizer,
                                                 call.max_tokens, call.kwargs)]
            /\ stage' = "parse"
            /\ UNCHANGED <<self_config, call, processing_result, error>>
    /\ UNCHANGED <<chunkerVars, cleanerVars, functionVars, serviceVars>>

\* parsed_file = await self._parse_file_async(file_path)
ParseStage ==
    /\ stage = "parse"
    /\ IF call.fault = "parse"
       THEN RaiseProcessingError(<<"ParsingError", "Exception">>)
       ELSE IF ~ParseFile(call).ok
       THEN RaiseProcessingError(<<"ParsingError">> \o ParseFile(call).chain)
       ELSE /\ frame' = [frame EXCEPT !.parsed_file = ParseFile(call).parsed_file]
            /\ stage' = "clean"
            /\ UNCHANGED <<self_config, call, processing_result, error>>
    /\ UNCHANGED <<chunkerVars, cleanerVars, functionVars, serviceVars>>

\* cleaned_text = await self._clean_text_async(parsed_file, config)
CleanStage ==
    /\ stage = "clean"
    /\ IF call.fault = "clean"
       THEN RaiseProcessingError(<<"CleaningError", "Exception">>)
       ELSE /\ frame' = [frame EXCEPT !.cleaned_text =
                            CleanText(frame.parsed_file.text, frame.parsed_file.format,
                                      {DetectContentType(frame.parsed_file.format)},
                                      [remove_headers |-> frame.config.remove_headers,
                                       normalize_whitespace |->
                                           frame.config.normalize_whitespace,
                                       strip_bullets |-> frame.config.strip_bullets])]
            /\ stage' = "chunk"
            /\ UNCHANGED <<self_config, call, processing_result, error>>
    /\ UNCHANGED <<chunkerVars, cleanerVars, functionVars, serviceVars>>

\* chunks = await self._chunk_text_async(cleaned_text, parsed_file, config)
ChunkStage ==
    /\ stage = "chunk"
    /\ IF call.fault = "chunk"
       THEN RaiseProcessingError(<<"ChunkingError", "Exception">>)
       ELSE /\ frame' = [frame EXCEPT !.chunks =
                            ChunkTextResult(frame.cleaned_text, ChunkConfigOf(frame.config),
                                            frame.config.tokenizer)]
            /\ stage' = "stats"
            /\ UNCHANGED <<self_config, call, processing_result, error>>
    /\ UNCHANGED <<chunkerVars, cleanerVars, functionVars, serviceVars>>

\* result = self._build_processing_result(...); return result
StatsStage ==
    /\ stage = "stats"
    /\ IF call.fault = "stats"
       THEN RaiseProcessingError(<<"Exception">>)
       ELSE /\ processing_result' =
                   {BuildProcessingResult(frame.chunks, frame.parsed_file, frame.config)}
            /\ stage' = "returned"
            /\ UNCHANGED <<self_config, call, frame, error>>
    /\ UNCHANGED <<chunkerVars, cleanerVars, functionVars, serviceVars>>

NextProcessor ==
    \/ MergeStage
    \/ ParseStage
    \/ CleanStage
    \/ ChunkStage
    \/ StatsStage

SpecProcessor == InitProcessor /\ [][NextProcessor]_vars

-----------------------------------------------------------------------------
(* C12 .. C15: the orchestrator *)

Returned == stage = "returned"

Raised == stage = "raised"

\* the clean stage has run
CleanStageDone == stage \in {"chunk", "stats", "returned"}

\* the merge stage has run
MergeStageDone == stage \in {"parse", "clean", "chunk", "stats", "returned"}

TheResult == CHOOSE r \in processing_result : TRUE

\* the stage whose call fails, "none" if none does
FailingStage ==
    IF call.fault = "merge" THEN "merge"
    ELSE IF call.fault = "parse" \/ ~ParseFile(call).ok THEN "parse"
    ELSE call.fault

\* the wrapper exception of a stage's helper, for the stages that have one
StageError ==
    [st \in {"parse", "clean", "chunk"} |->
        CASE st = "parse" -> "ParsingError" [] st = "clean" -> "CleaningError"
          [] st = "chunk" -> "ChunkingError"]

\* C12: the cleaning policy process_file_async applies is the one the
\* classifier assigns to the file's extension: the code path for .py, the data
\* path for .csv, the document path for a document extension.
C12_CleanedByExtensionPolicy ==
    CleanStageDone =>
        frame.cleaned_text =
            CleanText(frame.parsed_file.text, call.extension, NoneValue,
                      [remove_headers |-> frame.config.remove_headers,
                       normalize_whitespace |-> frame.config.normalize_whitespace,
                       strip_bullets |-> frame.config.strip_bullets])

\* C13: process_file_async has exactly two outcomes.  It returns a complete
\* ProcessingResult when no stage fails, or it raises a ProcessingError whose
\* cause is the exception the failing stage raised (for parse, clean and chunk
\* the stage's ParsingError, CleaningError or ChunkingError, itself caused by
\* the underlying exception); no other exception type escapes, whichever of
\* the five stages fails, and no result is returned with the exception.
C13_ResultOrProcessingError ==
    /\ stage \in Stages \cup {"returned", "raised"}
    /\ stage \in Stages => processing_result = NoneValue /\ error = <<>>
    /\ Returned =>
          /\ FailingStage = "none"
          /\ error = <<>>
          /\ processing_result =
                 {BuildProcessingResult(frame.chunks, frame.parsed_file, frame.config)}
    /\ Raised =>
          /\ FailingStage \in Stages
          /\ processing_result = NoneValue
          /\ Len(error) >= 2
          /\ error[1] = "ProcessingError"
          /\ \A i \in 2..Len(error) : error[i] # "ProcessingError"
          /\ IF FailingStage \in DOMAIN StageError
             THEN error[2] = StageError[FailingStage] /\ Len(error) >= 3
             ELSE error = <<"ProcessingError", "Exception">>
          /\ call.fault = FailingStage => error[Len(error)] = "Exception"

\* the chunk stage fails after the earlier stages have done their work
C13_Witness ==
    /\ Raised
    /\ call.fault = "chunk"
    /\ frame.cleaned_text # <<>>
    /\ error = <<"ProcessingError", "ChunkingError", "Exception">>
    /\ processing_result = NoneValue

\* C14: in the returned result total_chunks is the number of chunks,
\* total_tokens the sum of their token_count and total_characters the sum of
\* the lengths of their texts; an empty input raises nothing and gives 0 for
\* total_chunks, total_tokens, avg_tokens_per_chunk, avg_chars_per_chunk and
\* compression_ratio.
C14_Statistics ==
    /\ Returned =>
          /\ TheResult.chunks = frame.chunks
          /\ TheResult.total_chunks = Len(frame.chunks)
          /\ TheResult.total_tokens = SumTokenCounts(frame.chunks)
          /\ TheResult.total_characters = SumTextLengths(frame.chunks)
    /\ (call.content = <<>> /\ FailingStage = "none" /\ stage \notin Stages) =>
          /\ Returned
          /\ TheResult.chunks = <<>>
          /\ TheResult.total_chunks = 0
          /\ TheResult.total_tokens = 0
          /\ TheResult.metadata.statistics.avg_tokens_per_chunk.num = 0
          /\ TheResult.metadata.statistics.avg_chars_per_chunk.num = 0
          /\ TheResult.metadata.statistics.compression_ratio.num = 0

\* a result of several chunks whose characters are fewer than the file's
C14_Witness ==
    /\ Returned
    /\ TheResult.total_chunks >= 2
    /\ TheResult.total_tokens >= 2
    /\ TheResult.total_characters > 0
    /\ TheResult.total_characters < Len(frame.parsed_file.text)
    /\ TheResult.metadata.statistics.avg_chars_per_chunk.den = TheResult.total_chunks

\* the override supplied for a field, as an Optional: {} when none, or None, is
\* supplied
SuppliedOverride(field) ==
    IF field = "tokenizer" THEN call.tokenizer
    ELSE IF field = "max_tokens" THEN call.max_tokens
    ELSE IF field \notin DOMAIN call.kwargs THEN NoneValue
    ELSE IF field = "custom_delimiter"
         THEN (IF call.kwargs[field] = NoneValue THEN NoneValue ELSE {call.kwargs[field]})
    ELSE {call.kwargs[field]}

\* C15: every field of the configuration _merge_config_overrides returns
\* equals the override supplied for it (the tokenizer and max_tokens arguments
\* or a keyword override) for every supplied non-None override value, and the
\* processor's configured value otherwise.
C15_OverridesWin ==
    MergeStageDone =>
        \A field \in DOMAIN self_config :
            IF SuppliedOverride(field) # NoneValue
            THEN {frame.config[field]} = SuppliedOverride(field)
            ELSE frame.config[field] = self_config[field]

-----------------------------------------------------------------------------
(* The module-level functions and the estimators, each called on its own *)

\* the strings handed to detect_content_type
ClassifierInputs ==
    {".py", ".PY", ".Py", ".js", ".html", ".xml", ".XML", ".sql", ".SQL",
     ".csv", ".Csv", ".json", ".JSON", ".xlsx", ".sqlite", ".SQLite",
     ".pdf", ".docx", ".txt", ".md", ".MD", ".zzz", ".ZZZ", "", "py", "python"}

SplitTextMethods == {"paragraph", "sentence", "custom", "token_aware", "lines"}

SplitTextMaxTokens == {1, 1024}

\* a variant of SplitText falling back to paragraphs, as chunk_text does,
\* where split_text raises
SplitTextFallingBack(t, method, delimiter, max_tokens) ==
    IF method = "sentence"
    THEN [ret |-> {StripNonEmpty(SplitSentences(t))}, exc |-> ""]
    ELSE IF method = "custom" /\ delimiter # NoneValue /\ delimiter # {<<>>}
    THEN [ret |-> {StripNonEmpty(SplitOn(t, CHOOSE d \in delimiter : TRUE))},
          exc |-> ""]
    ELSE [ret |-> {StripNonEmpty(SplitOn(t, <<"\n", "\n">>))}, exc |-> ""]

\* split_text(text, method, delimiter, max_tokens): what it returns or raises
SplitText(t, method, delimiter, max_tokens) ==
    IF method = "paragraph"
    THEN [ret |-> {StripNonEmpty(SplitOn(t, <<"\n", "\n">>))}, exc |-> ""]
    ELSE IF method = "sentence"
    THEN [ret |-> {StripNonEmpty(SplitSentences(t))}, exc |-> ""]
    ELSE IF method = "custom"
    THEN IF delimiter = NoneValue \/ delimiter = {<<>>}
         THEN [ret |-> NoneValue, exc |-> "ValueError"]
         ELSE [ret |-> {StripNonEmpty(SplitOn(t, CHOOSE d \in delimiter : TRUE))},
               exc |-> ""]
    ELSE [ret |-> NoneValue, exc |-> "ValueError"]

InitFunctions ==
    /\ ChunkerIdle
    /\ CleanerIdle
    /\ ProcessorIdle
    /\ ServiceIdle
    /\ \/ /\ fn = "detect_content_type"
          /\ args \in [file_extension : ClassifierInputs]
       \/ /\ fn = "split_text"
          /\ args \in [text : Texts, method : SplitTextMethods,
                        delimiter : Delimiters, max_tokens : SplitTextMaxTokens]
       \/ /\ fn \in {"_estimate_tokens_word_based", "_estimate_tokens_char_based"}
          /\ args \in [text : Texts]
    /\ ret = NoneValue
    /\ exc = ""

\* the function has neither returned nor raised
Pending == ret = NoneValue /\ exc = ""

DetectContentTypeCall ==
    /\ fn = "detect_content_type"
    /\ Pending
    /\ ret' = {DetectContentType(args.file_extension)}
    /\ UNCHANGED <<fn, args, exc>>
    /\ UNCHANGED <<chunkerVars, cleanerVars, processorVars, serviceVars>>

SplitTextCall ==
    /\ fn = "split_text"
    /\ Pending
    /\ LET r == SplitText(args.text, args.method, args.delimiter, args.max_tokens)
       IN  ret' = r.ret /\ exc' = r.exc
    /\ UNCHANGED <<fn, args>>
    /\ UNCHANGED <<chunkerVars, cleanerVars, processorVars, serviceVars>>

EstimateTokensWordBasedCall ==
    /\ fn = "_estimate_tokens_word_based"
    /\ Pending
    /\ ret' = {EstimateTokensWordBased(args.text)}
    /\ UNCHANGED <<fn, args, exc>>
    /\ UNCHANGED <<chunkerVars, cleanerVars, processorVars, serviceVars>>

EstimateTokensCharBasedCall ==
    /\ fn = "_estimate_tokens_char_based"
    /\ Pending
    /\ ret' = {EstimateTokensCharBased(args.text)}
    /\ UNCHANGED <<fn, args, exc>>
    /\ UNCHANGED <<chunkerVars, cleanerVars, processorVars, serviceVars>>

NextFunctions ==
    \/ DetectContentTypeCall
    \/ SplitTextCall
    \/ EstimateTokensWordBasedCall
    \/ EstimateTokensCharBasedCall

SpecFunctions == InitFunctions /\ [][NextFunctions]_vars

-----------------------------------------------------------------------------
(* Vocabulary of the functions' properties *)

\* fn has returned: its value
ReturnedBy(name) == fn = name /\ ret # NoneValue

TheReturn == CHOOSE v \in ret : TRUE

\* the number of whitespace-separated words of t: its maximal runs of
\* characters that are not whitespace
WordCount(t) ==
    Cardinality({i \in 1..Len(t) :
                   t[i] \notin Whitespace /\ (i = 1 \/ t[i - 1] \in Whitespace)})

-----------------------------------------------------------------------------
(* C21 .. C23, C25: the classifier, the estimators, split_text *)

\* C21: detect_content_type returns code, document or data exactly when the
\* lower-cased extension is in the set of that name and document for every
\* other string; no extension is in two of the sets, so the order in which
\* the sets are consulted does not matter
C21_DisjointTableLookup ==
    ReturnedBy("detect_content_type") =>
        LET ext == LowerExtension(args.file_extension)
        IN  /\ TheReturn \in {"code", "document", "data"}
            /\ TheReturn = "code" <=> ext \in CodeExtensions
            /\ TheReturn = "data" <=> ext \in DataExtensions
            /\ TheReturn = "document" <=>
                  (ext \in DocumentExtensions
                   \/ ext \notin CodeExtensions \cup DataExtensions)
            /\ Cardinality({S \in {CodeExtensions, DocumentExtensions, DataExtensions} :
                             ext \in S}) <= 1

\* C22: the word-based estimator returns the integer nearest to
\* 13 * word_count / 10: 0 for the empty text and at least 1 for every
\* non-empty text
C22_WordEstimateRounded ==
    ReturnedBy("_estimate_tokens_word_based") =>
        LET n == WordCount(args.text)
            d == 10 * TheReturn - 13 * n
        IN  /\ -5 <= d /\ d <= 5
            /\ args.text = <<>> => TheReturn = 0
            /\ args.text # <<>> => TheReturn >= 1

\* C22 as the code has it: the word-based estimator returns 13 * word_count
\* / 10 rounded down, which is 0 exactly for the texts without a word (the
\* empty and the whitespace-only ones) and at least 1 for every other text
C22_WordEstimateTruncated ==
    ReturnedBy("_estimate_tokens_word_based") =>
        LET n == WordCount(args.text)
        IN  /\ 10 * TheReturn <= 13 * n
            /\ 13 * n < 10 * TheReturn + 10
            /\ TheReturn = 0 <=> n = 0
            /\ TheReturn >= 0

\* two words give 2, where rounding to the nearest integer gives 3, and a
\* whitespace-only text gives 0
C22_Witness ==
    /\ ReturnedBy("_estimate_tokens_word_based")
    /\ \/ WordCount(args.text) = 2 /\ TheReturn = 2
       \/ args.text = <<" ">> /\ TheReturn = 0

\* C23: the char-based estimator returns char_count / 4 rounded down, 0 for
\* the empty text and at least 1 for every non-empty text, those of 1 to 3
\* characters included
C23_CharEstimateFloorWithMinimum ==
    ReturnedBy("_estimate_tokens_char_based") =>
        LET n == Len(args.text)
        IN  /\ n = 0 => TheReturn = 0
            /\ n \in 1..3 => TheReturn = 1
            /\ n >= 4 => 4 * TheReturn <= n /\ n < 4 * TheReturn + 4

-----------------------------------------------------------------------------
(* C24, C26: the chunks the orchestrator gets from the chunker *)

\* the chunk stage has run: frame.chunks is what chunk_text returned
ChunkStageDone == stage \in {"stats", "returned"}

\* C24: with either built-in estimator and every method, every chunk
\* returned for a non-blank text has non-whitespace text and token_count > 0
C24_ChunksNonEmptyAndCounted ==
    (ChunkStageDone /\ frame.config.tokenizer \in {"word-estimate", "char-estimate"}
       /\ Strip(frame.cleaned_text) # <<>>) =>
        \A i \in 1..Len(frame.chunks) :
            /\ Strip(frame.chunks[i].text) # <<>>
            /\ frame.chunks[i].token_count > 0

\* C26: a text whose estimated token count exceeds the max_tokens override
\* of the call, chunked by paragraph, comes back as more than one chunk,
\* also when it is a single paragraph
C26_OverBudgetTextIsSplit ==
    (ChunkStageDone /\ call.max_tokens # NoneValue
       /\ frame.config.max_tokens \in call.max_tokens
       /\ frame.config.chunk_method = "paragraph"
       /\ GetTokenizerFunction(frame.config.tokenizer, frame.cleaned_text)
              > frame.config.max_tokens) =>
        Len(frame.chunks) > 1

-----------------------------------------------------------------------------
(* C25: split_text *)

\* the call of split_text must raise: unknown method, or custom without a
\* delimiter
MustRaise ==
    \/ args.method \notin {"paragraph", "sentence", "custom"}
    \/ args.method = "custom" /\ args.delimiter \in {NoneValue, {<<>>}}

\* the separator the call splits on: a literal, <<>> standing for the
\* sentence boundary
SplitSeparator ==
    IF args.method = "paragraph" THEN <<"\n", "\n">>
    ELSE IF args.method = "custom" THEN CHOOSE d \in args.delimiter : TRUE
    ELSE <<>>

\* p holds a place where split_text would have cut
HoldsSeparator(p) ==
    IF args.method = "sentence"
    THEN \E i \in 1..(Len(p) - 1) : p[i] \in SentenceEnd /\ p[i + 1] \in Whitespace
    ELSE Find(p, SplitSeparator) # -1

\* the characters that splitting and stripping may remove
Droppable ==
    Whitespace \cup {SplitSeparator[i] : i \in 1..Len(SplitSeparator)}

\* C25: split_text raises ValueError exactly when the method is not
\* paragraph, sentence or custom, or the method is custom and the delimiter
\* is missing or empty; otherwise it returns, in source order, the stripped
\* non-empty parts of the text, and max_tokens has no effect
C25_SplitTextContract ==
    (fn = "split_text" /\ ~Pending) =>
        /\ exc = "ValueError" <=> MustRaise
        /\ exc \in {"", "ValueError"}
        /\ MustRaise => ret = NoneValue
        /\ ~MustRaise =>
              /\ ret # NoneValue
              /\ \A i \in 1..Len(TheReturn) :
                    /\ TheReturn[i] # <<>>
                    /\ Strip(TheReturn[i]) = TheReturn[i]
                    /\ ~HoldsSeparator(TheReturn[i])
              /\ Content(Join(<<>>, TheReturn), Droppable) = Content(args.text, Droppable)
              /\ \A m \in SplitTextMaxTokens :
                    ret = SplitText(args.text, args.method, args.delimiter, m).ret

\* split_text raised for the custom method with an empty delimiter
C25_Witness ==
    /\ fn = "split_text"
    /\ args.method = "custom"
    /\ args.delimiter = {<<>>}
    /\ Strip(args.text) # <<>>
    /\ exc = "ValueError"

-----------------------------------------------------------------------------
(* C27 .. C29: how the two loops consume their input *)

\* the number of leading words chunk i was seeded with from chunk i - 1
OverlapLen(i) ==
    IF i = 1 \/ config.overlap_tokens = 0 THEN 0
    ELSE LongestFit(WordsOfChunk(i - 1), config.overlap_tokens)

\* the words of chunk i after its leading overlap words
NewWordsOfChunk(i) == SubSeq(WordsOfChunk(i), OverlapLen(i) + 1, Len(WordsOfChunk(i)))

RECURSIVE NewWordsUpTo(_)
\* the new words of chunks 1..i, concatenated
NewWordsUpTo(i) == IF i = 0 THEN <<>> ELSE NewWordsUpTo(i - 1) \o NewWordsOfChunk(i)

RECURSIVE WordsUpTo(_)
\* all words of chunks 1..i, concatenated
WordsUpTo(i) == IF i = 0 THEN <<>> ELSE WordsUpTo(i - 1) \o WordsOfChunk(i)

\* C27: token_aware consumes every word exactly once and in order: the
\* chunks' words after their leading overlap words concatenate to the
\* whitespace-split words of the input, every chunk holds at least one new
\* word, and with overlap_tokens = 0 the chunks partition the word list
C27_EveryWordOnce ==
    (Done /\ config.method = "token_aware" /\ outcome = "returned") =>
        /\ NewWordsUpTo(Len(chunks)) = SplitWs(text)
        /\ \A i \in 1..Len(chunks) :
              /\ OverlapLen(i) < Len(WordsOfChunk(i))
              /\ chunks[i].metadata.word_count = Len(WordsOfChunk(i))
        /\ config.overlap_tokens = 0 => WordsUpTo(Len(chunks)) = SplitWs(text)

\* three chunks, the later ones starting with words of the chunk before
C27_Witness ==
    /\ Done /\ config.method = "token_aware" /\ outcome = "returned"
    /\ Len(chunks) >= 3
    /\ \A i \in 2..Len(chunks) : OverlapLen(i) >= 1
    /\ WordsUpTo(Len(chunks)) # SplitWs(text)

\* the combiner ran and returned: a non-blank text under a method other
\* than token_aware
CombinerReturned == Done /\ ByCombiner /\ outcome = "returned" /\ NonBlank(text)

\* no chunk was closed while the next part still fitted
PackedGreedily ==
    \A i \in 1..(Len(chunks) - 1) :
        chunks[i].token_count + TokenizerFunc(tokenizer, PartsOfChunk(i + 1)[1])
            > config.max_tokens

\* C28: the combiner never closes a chunk early: a chunk's token_count plus
\* the token count of the first part of the next chunk exceeds max_tokens;
\* and when the parts' token counts sum to at most max_tokens, exactly one
\* chunk holding all parts is returned
C28_GreedyOneChunk ==
    CombinerReturned =>
        /\ PackedGreedily
        /\ SumTokens(tokenizer, parts) <= config.max_tokens =>
              Len(chunks) = 1 /\ PartsOfChunk(1) = parts

\* C28 with the empty part list set apart: parts that fit the budget come
\* back as exactly one chunk when there is at least one part, and as no
\* chunk when there is none
C28_GreedyOneChunkOfParts ==
    CombinerReturned =>
        /\ PackedGreedily
        /\ (parts # <<>> /\ SumTokens(tokenizer, parts) <= config.max_tokens) =>
              /\ Len(chunks) = 1
              /\ PartsOfChunk(1) = parts
              /\ chunks[1].text = Join(separator, parts)
        /\ parts = <<>> => chunks = <<>>

\* a chunk of two parts was closed because the third part did not fit
C28_Witness ==
    /\ CombinerReturned
    /\ Len(chunks) >= 2
    /\ Len(PartsOfChunk(1)) >= 2
    /\ chunks[1].token_count <= config.max_tokens

\* the number of parts in the chunks emitted so far
EmittedParts == PartCountBefore(Len(chunks) + 1)

\* every chunk emitted so far is the join of its own, non-empty, run of parts
ChunksHoldTheirParts ==
    \A i \in 1..Len(chunks) :
        /\ chunks[i].metadata.part_count >= 1
        /\ PartCountBefore(i) + chunks[i].metadata.part_count <= Len(parts)
        /\ chunks[i].text = Join(separator, PartsOfChunk(i))
        /\ chunks[i].chunk_index = i - 1

\* C29: at every step of _combine_into_chunks the parts of the chunks
\* emitted so far followed by the parts in the buffer are the prefix of the
\* part list processed so far; on return the chunks' part lists, in
\* chunk_index order, are the part list, every chunk holds at least one
\* part, and part_count is the number of parts joined into the chunk
C29_PartsAccounted ==
    /\ pc = "combine" =>
          /\ ChunksHoldTheirParts
          /\ EmittedParts + Len(current_parts) = pos
          /\ current_parts = SubSeq(parts, EmittedParts + 1, pos)
    /\ (Done /\ ByCombiner /\ outcome = "returned") =>
          /\ ChunksHoldTheirParts
          /\ EmittedParts = Len(parts)

\* in the middle of the loop: a chunk emitted, a part buffered, a part to come
C29_Witness ==
    /\ pc = "combine"
    /\ chunks # <<>>
    /\ current_parts # <<>>
    /\ pos < Len(parts)

-----------------------------------------------------------------------------
(* ProcessingService: jobs, the background task of a job, and cancel_job *)

UserIds == {"user-1", "user-2"}

\* the arguments of the calls of update_job_status made from outside
UpdateInputs ==
    {<<"completed", 100, "Processing complete">>,
     <<"processing", 50, "Cleaning text...">>}

\* the calls of process_file_background for job_id that are suspended
InFlight(job_id) == task[job_id].parsing + task[job_id].chunking

\* the statuses after which cancel_job refuses
FinalStatuses == {"completed", "failed", "cancelled"}

\* create_job_status: the record of a new job
NewJob(user_id) ==
    [user_id |-> user_id, status |-> "pending", progress |-> 0,
     current_step |-> "Queued for processing"]

\* self.jobs[job_id]
JobData(js, job_id) == CHOOSE r \in js[job_id] : TRUE

\* update_job_status: self.jobs after the call
UpdateJobStatus(js, job_id, status, progress, current_step) ==
    IF js[job_id] = NoneValue THEN js
    ELSE [js EXCEPT ![job_id] =
             {[JobData(js, job_id) EXCEPT !.status = status, !.progress = progress,
                                          !.current_step = current_step]}]

InitService ==
    /\ ChunkerIdle
    /\ CleanerIdle
    /\ ProcessorIdle
    /\ FunctionsIdle
    /\ ServiceIdle

\* create_job_status(job_id, file_id, user_id, config): self.jobs[job_id] is
\* assigned unconditionally, so the record of an existing job, whatever its
\* status and owner, is replaced by that of a new pending job; a running
\* task of the replaced job goes on and updates the new record.  The
\* acknowledgement of a cancellation belonged to the replaced job and goes
\* with it
CreateJobStatus ==
    \E job_id \in JobIds, user_id \in UserIds :
        /\ jobs' = [jobs EXCEPT ![job_id] = {NewJob(user_id)}]
        /\ acknowledged' = acknowledged \ {job_id}
        /\ cancel_call' = NoneValue
        /\ UNCHANGED <<results, task>>
        /\ UNCHANGED <<chunkerVars, cleanerVars, processorVars, functionVars>>

\* process_file_background from its entry to its first suspension, the
\* to_thread of the parse stage; it ends here when the file is missing.
\* The code requires neither that the job exists (update_job_status then
\* does nothing) nor that no other call for the job is in flight
StartBackground ==
    \E job_id \in JobIds, file_exists \in BOOLEAN :
        /\ LET started == UpdateJobStatus(jobs, job_id, "processing", 10,
                                          "Starting processing...")
           IN  IF file_exists
               THEN /\ InFlight(job_id) < MaxTasks
                    /\ jobs' = UpdateJobStatus(started, job_id, "processing", 30,
                                               "Parsing file...")
                    /\ task' = [task EXCEPT ![job_id].parsing = @ + 1]
               ELSE /\ jobs' = UpdateJobStatus(started, job_id, "failed", 0, "str(e)")
                    /\ UNCHANGED task
        /\ cancel_call' = NoneValue
        /\ UNCHANGED <<results, acknowledged>>
        /\ UNCHANGED <<chunkerVars, cleanerVars, processorVars, functionVars>>

\* a task resumes after the parse thread: on an error it records the
\* failure, otherwise it cleans and suspends on the to_thread of the chunk stage
ResumeAfterParse ==
    \E job_id \in JobIds, parsed \in BOOLEAN :
        /\ task[job_id].parsing > 0
        /\ IF parsed
           THEN /\ task' = [task EXCEPT ![job_id].parsing = @ - 1,
                                        ![job_id].chunking = @ + 1]
                /\ UNCHANGED jobs
           ELSE /\ jobs' = UpdateJobStatus(jobs, job_id, "failed", 0, "str(e)")
                /\ task' = [task EXCEPT ![job_id].parsing = @ - 1]
        /\ cancel_call' = NoneValue
        /\ UNCHANGED <<results, acknowledged>>
        /\ UNCHANGED <<chunkerVars, cleanerVars, processorVars, functionVars>>

\* a task resumes after the chunk thread and runs to its end.  When the
\* chunk stage raised, the handler records the failure.  When it returned,
\* the task records progress 80 and then reads result.avg_tokens_per_chunk,
\* which wolfcore's ProcessingResult does not have: the AttributeError
\* reaches the same handler, so nothing is stored in self.results and the
\* "completed" update is never made
ResumeAfterChunk ==
    \E job_id \in JobIds, chunked \in BOOLEAN :
        /\ task[job_id].chunking > 0
        /\ IF chunked
           THEN jobs' = UpdateJobStatus(
                           UpdateJobStatus(jobs, job_id, "processing", 80,
                                           "Finalizing results..."),
                           job_id, "failed", 0, "str(e)")
           ELSE jobs' = UpdateJobStatus(jobs, job_id, "failed", 0, "str(e)")
        /\ task' = [task EXCEPT ![job_id].chunking = @ - 1]
        /\ cancel_call' = NoneValue
        /\ UNCHANGED <<results, acknowledged>>
        /\ UNCHANGED <<chunkerVars, cleanerVars, processorVars, functionVars>>

\* update_job_status(job_id, status, progress, current_step) called on the
\* service from outside: the same unconditional overwrite.  A status the
\* caller sets itself ends the acknowledgement of an earlier cancellation
UpdateJobStatusCall ==
    \E job_id \in JobIds, u \in UpdateInputs :
        /\ jobs' = UpdateJobStatus(jobs, job_id, u[1], u[2], u[3])
        /\ acknowledged' = acknowledged \ {job_id}
        /\ cancel_call' = NoneValue
        /\ UNCHANGED <<results, task>>
        /\ UNCHANGED <<chunkerVars, cleanerVars, processorVars, functionVars>>

\* cancel_job(job_id, user_id): what it returns
CancelJobReturns(js, job_id, user_id) ==
    IF js[job_id] = NoneValue THEN FALSE
    ELSE IF JobData(js, job_id).user_id # user_id THEN FALSE
    ELSE IF JobData(js, job_id).status \in FinalStatuses THEN FALSE
    ELSE TRUE

\* cancel_job, which never suspends: one step
CancelJob ==
    \E job_id \in JobIds, user_id \in UserIds :
        LET returned == CancelJobReturns(jobs, job_id, user_id)
            after == IF returned
                     THEN UpdateJobStatus(jobs, job_id, "cancelled", 0, "Cancelled by user")
                     ELSE jobs
        IN  /\ jobs' = after
            /\ cancel_call' = {[job_id |-> job_id, user_id |-> user_id,
                                returned |-> returned, before |-> jobs, after |-> after]}
            /\ acknowledged' = IF returned THEN acknowledged \cup {job_id}
                               ELSE acknowledged
            /\ UNCHANGED <<results, task>>
            /\ UNCHANGED <<chunkerVars, cleanerVars, processorVars, functionVars>>

NextService ==
    \/ CreateJobStatus
    \/ UpdateJobStatusCall
    \/ StartBackground
    \/ ResumeAfterParse
    \/ ResumeAfterChunk
    \/ CancelJob

SpecService == InitService /\ [][NextService]_vars

-----------------------------------------------------------------------------
(* C30: cancellation *)

\* C30: once cancel_job has returned True for a job, the job's status is
\* cancelled in every later state, however the calls of cancel_job
\* interleave with the job's process_file_background; and cancel_job returns
\* False and changes nothing for a job that is completed, failed or cancelled
C30_CancelledStaysCancelled ==
    /\ \A job_id \in acknowledged : JobData(jobs, job_id).status = "cancelled"
    /\ \A c \in cancel_call :
          (c.before[c.job_id] # NoneValue
             /\ JobData(c.before, c.job_id).status \in FinalStatuses) =>
                ~c.returned /\ c.after = c.before

====
